---- MODULE Spec2Model ----
(***************************************************************************)
(* A model of the fixed-income library: the bond instruments, the cash-flow *)
(* matrix and the zero-curve bootstrap of bonds.py, the short-rate tree     *)
(* calibration of trees.py, the parametric curves and their fits of         *)
(* yieldcurves.py, and the rate conversions of rates.py.                    *)
(*                                                                          *)
(* Arithmetic.  The library computes in floating point; the model computes  *)
(* exactly, in integers.  A per-period yield ytm is an integer with         *)
(* 1 + ytm a power of two (0 or 1, i.e. 0% or 100% per period), so every    *)
(* present-value factor (1 + ytm)^-t is a dyadic fraction; factors and      *)
(* prices are carried multiplied by Scale.  A short rate, a drift theta and  *)
(* a volatility sigma of a tree are integers in the unit ln 2 per time      *)
(* step, so exp(-rate * time_step) is 2^-rate; tree prices are carried      *)
(* multiplied by ZScale.  The numbers of yieldcurves.py and rates.py are     *)
(* floats with their special values: a finite number carried multiplied by  *)
(* CScale, +inf, -inf, NaN, or a finite number the integers cannot hold     *)
(* (kind "real": the exponential of a fraction).                            *)
(***************************************************************************)
EXTENDS Integers, Sequences, FiniteSets, TLC

\* ------------------------------------------------------------------ bounds
MaxPeriods == 3
MaxPortfolio == 3
MaxZeros == 3       \* the longest target zero curve given to fit
MaxTrials == 2      \* objective evaluations of one minimization after x0
MaxCurve == 2       \* the longest maturity vector given to a curve
MaxTerm == 2        \* the longest term given to a rate conversion
MaxSteps == 3       \* the most periods of a tree a bond or call is priced on

\* ---------------------------------------------------------------- helpers
RECURSIVE Pow(_, _)
Pow(b, e) == IF e <= 0 THEN 1 ELSE b * Pow(b, e - 1)

\* The sequence <<f[1], ..., f[n]>>.
RECURSIVE TupleOf(_, _)
TupleOf(f, n) == IF n <= 0 THEN <<>> ELSE Append(TupleOf(f, n - 1), f[n])

SetMax(S) == CHOOSE m \in S : \A x \in S : x <= m

\* Python's int(): truncation toward zero of the quotient num / den, den > 0.
PyTrunc(num, den) == IF num >= 0 THEN num \div den ELSE -((-num) \div den)

\* The factor every present-value factor and price is multiplied by.
Scale == Pow(2, MaxPeriods + 1)

\* Python numbers as the constructors receive them: an int, a float (val is
\* the number of halves, so 5 is 2.5 and 4 is 2.0), math.inf, -math.inf.
PyInt(n) == [kind |-> "int", val |-> n]
PyFloat(h) == [kind |-> "float", val |-> h]
PyInf == [kind |-> "inf", val |-> 0]
PyNegInf == [kind |-> "ninf", val |-> 0]
PyNaN == [kind |-> "nan", val |-> 0]

PyNeg(p) ==
    CASE p.kind = "inf" -> PyNegInf
      [] p.kind = "ninf" -> PyInf
      [] OTHER -> [kind |-> p.kind, val |-> -p.val]

\* ------------------------------------------------------- bonds.py functions
\* math.pow(1 + ytm, periods), times Scale.
future_value_factor(ytm, periods) ==
    CASE periods.kind = "ninf" -> IF ytm = 0 THEN Scale ELSE 0
      [] periods.val >= 0 -> Scale * Pow(1 + ytm, periods.val)
      [] OTHER -> Scale \div Pow(1 + ytm, -periods.val)

present_value_factor(ytm, periods) == future_value_factor(ytm, PyNeg(periods))

price_limit_dropped(face_value, coupon, periods, ytm) ==
    LET pv_factor == present_value_factor(ytm, periods)
        annuity_factor == (Scale - pv_factor) \div (IF ytm # 0 THEN ytm ELSE 1)
    IN  coupon * annuity_factor + face_value * pv_factor

\* The clean price of a coupon paying bond, times Scale.
price(face_value, coupon, periods, ytm) ==
    LET pv_factor == present_value_factor(ytm, periods)
        annuity_factor == IF ytm # 0 THEN (Scale - pv_factor) \div ytm
                          ELSE periods.val * Scale
    IN  coupon * annuity_factor + face_value * pv_factor

\* maturity_years is given in quarter years; the result is a Python int.
to_periods(maturity_quarters, freq) == PyInt(PyTrunc(maturity_quarters * freq, 4))

\* coupon_rate is given in percent.
to_coupon(par, coupon_rate, freq) == (par * coupon_rate) \div (100 * freq)

period_ytm(annual_ytm, freq) == annual_ytm \div freq

\* --------------------------------------------------------------- instruments
TreasuryNote_par == 100
TreasuryNote_freq == 2

NoObj == [cls |-> "none"]

\* isinstance(periods, (int, np.integer)) or periods == math.inf
PeriodsAssertion(periods) == periods.kind = "int" \/ periods.kind = "inf"

\* CouponBond.__init__, reached from every subclass through super().__init__.
CouponBond_init(cls, face_value, coupon, periods, ytm) ==
    IF PeriodsAssertion(periods)
    THEN [raised |-> "none",
          obj |-> [cls |-> cls, face_value |-> face_value, coupon |-> coupon,
                   periods |-> periods, ytm |-> ytm,
                   price |-> price(face_value, coupon, periods, ytm)]]
    ELSE [raised |-> "AssertionError", obj |-> NoObj]

Zero_init(face_value, periods, ytm) ==
    CouponBond_init("Zero", face_value, 0, periods, ytm)

Perpetuity_init(coupon, ytm) ==
    CouponBond_init("Perpetuity", 0, coupon, PyInf, ytm)

TreasuryNote_init(coupon_rate, maturity_quarters, annual_ytm) ==
    CouponBond_init("TreasuryNote", TreasuryNote_par,
                    to_coupon(TreasuryNote_par, coupon_rate, TreasuryNote_freq),
                    to_periods(maturity_quarters, TreasuryNote_freq),
                    period_ytm(annual_ytm, TreasuryNote_freq))

\* FloatingRateBond.__init__: the attributes it sets, named without their
\* underscore.  interest_rate is in the unit of ytm, spread_rate in percent.
FloatingRateBond_init(maturity_quarters, interest_rate, spread_rate, freq, face_value) ==
    LET periods == to_periods(maturity_quarters, freq)
        fixed == CouponBond_init("CouponBond", 0,
                                 to_coupon(face_value, spread_rate, freq),
                                 periods, period_ytm(interest_rate, freq))
    IN  [raised |-> fixed.raised,
         obj |-> [maturity_quarters |-> maturity_quarters,
                  freq |-> freq,
                  face_value |-> face_value,
                  periods |-> periods,
                  interest_rate |-> interest_rate,
                  spread_rate |-> spread_rate,
                  fixed_bond |-> fixed.obj]]

\* FloatingRateBond.reset: the two assignments, then the new fixed bond,
\* whose coupon argument reads the attribute _par of the floater.
FloatingRateBond_reset(self, period, interest_rate) ==
    LET assigned == [self EXCEPT !.periods = PyInt(self.periods.val - period),
                                 !.interest_rate = interest_rate]
    IN  IF "par" \in DOMAIN assigned
        THEN LET fixed == CouponBond_init("CouponBond", 0,
                              to_coupon(assigned.par, assigned.spread_rate,
                                        assigned.freq),
                              assigned.periods,
                              period_ytm(interest_rate, assigned.freq))
             IN  [raised |-> fixed.raised,
                  obj |-> IF fixed.raised = "none"
                          THEN [assigned EXCEPT !.fixed_bond = fixed.obj]
                          ELSE assigned]
        ELSE [raised |-> "AttributeError", obj |-> assigned]

\* CouponBond.__iter__ and Zero.__iter__: the (period, cashflow) pairs of a
\* finite-period instrument, in the order the generator yields them.
CouponBond_iter(bond) ==
    LET n == bond.periods.val
    IN  TupleOf([t \in 1..(n - 1) |-> <<t, bond.coupon>>], n - 1)
            \o << <<n, bond.coupon + bond.face_value>> >>

Zero_iter(bond) == << <<bond.periods.val, bond.face_value>> >>

Iter(bond) == IF bond.cls = "Zero" THEN Zero_iter(bond) ELSE CouponBond_iter(bond)

\* ------------------------------------------------------ portfolio functions
Periods(portfolio) == {portfolio[k].periods.val : k \in 1..Len(portfolio)}

\* can_bootstrap: max() of the empty set raises ValueError; otherwise the SET
\* of period counts is compared with set(range(1, max + 1)).
can_bootstrap(portfolio) ==
    LET periods == Periods(portfolio)
    IN  IF periods = {} THEN [raised |-> "ValueError", value |-> FALSE]
        ELSE [raised |-> "none", value |-> (periods = 1..SetMax(periods))]

\* cf + [0.0] * n: a non-positive n adds nothing.
Pad(cf, n) == cf \o TupleOf([t \in 1..n |-> 0], n)

\* cash_flows: one row per bond, the bond's cashflows in the order its
\* iterator yields them (the period index is dropped), padded with zeros to
\* the period count of the longest bond.
cash_flows(portfolio) ==
    LET longest == SetMax(Periods(portfolio))
        cfs == [k \in 1..Len(portfolio) |->
                    LET pairs == Iter(portfolio[k])
                    IN  TupleOf([t \in 1..Len(pairs) |-> pairs[t][2]], Len(pairs))]
    IN  TupleOf([k \in 1..Len(portfolio) |-> Pad(cfs[k], longest - Len(cfs[k]))],
                Len(portfolio))

\* ------------------------------------------------------------ linear algebra
\* numpy's matrix.getI() is the inverse of a square matrix and the
\* Moore-Penrose pseudo-inverse of any other; getI() @ prices is then the
\* minimum-norm least-squares solution D of A D = P.  It is the one vector
\* with A^T (A D - P) = 0 that lies in the row space of A.
SeqSum(s) ==
    LET RECURSIVE Go(_)
        Go(i) == IF i = 0 THEN 0 ELSE s[i] + Go(i - 1)
    IN  Go(Len(s))

Dot(u, v) == SeqSum([i \in 1..Len(u) |-> u[i] * v[i]])

NCols(A) == IF Len(A) = 0 THEN 0 ELSE Len(A[1])

Column(A, c) == [r \in 1..Len(A) |-> A[r][c]]

RemoveAt(s, i) == [j \in 1..(Len(s) - 1) |-> IF j < i THEN s[j] ELSE s[j + 1]]

RECURSIVE Det(_)
Det(M) ==
    IF Len(M) = 0 THEN 1
    ELSE LET Minor(c) == [r \in 1..(Len(M) - 1) |-> RemoveAt(M[r + 1], c)]
             Sign(c) == IF c % 2 = 1 THEN 1 ELSE -1
         IN  SeqSum([c \in 1..Len(M) |->
                        IF M[1][c] = 0 THEN 0 ELSE Sign(c) * M[1][c] * Det(Minor(c))])

\* The elements of a set of integers in increasing order.
RECURSIVE Sorted(_)
Sorted(S) == IF S = {} THEN <<>>
             ELSE LET m == SetMax(S) IN Append(Sorted(S \ {m}), m)

SubMatrix(A, rows, cols) ==
    LET rs == Sorted(rows)
        cs == Sorted(cols)
    IN  [r \in 1..Len(rs) |-> [c \in 1..Len(cs) |-> A[rs[r]][cs[c]]]]

\* The rank: the size of the largest square sub-matrix with a non-zero
\* determinant.
Rank(A) ==
    LET m == Len(A)
        n == NCols(A)
        HasMinor(k) == \E rows \in SUBSET (1..m) : \E cols \in SUBSET (1..n) :
                          /\ Cardinality(rows) = k
                          /\ Cardinality(cols) = k
                          /\ Det(SubMatrix(A, rows, cols)) # 0
    IN  SetMax({k \in 0..(IF m <= n THEN m ELSE n) : HasMinor(k)})

IsPinvSolution(A, D, P) ==
    /\ \A c \in 1..NCols(A) :
          Dot(Column(A, c), [r \in 1..Len(A) |-> Dot(A[r], D) - P[r]]) = 0
    /\ Rank(Append(A, D)) = Rank(A)

\* The discount factors (times Scale) the model can represent: the factors
\* of the two yields at every period, and 0.
Grid == {0} \cup {Scale \div Pow(2, t) : t \in 0..(MaxPeriods + 1)}

\* cfs.getI() @ prices: the solution when it lies on Grid; grid is FALSE
\* when the solved vector is a real vector the integer model cannot hold.
Solve(A, P) ==
    LET cands == {D \in [1..NCols(A) -> Grid] : IsPinvSolution(A, D, P)}
    IN  IF cands # {}
        THEN [grid |-> TRUE, dfs |-> TupleOf(CHOOSE D \in cands : TRUE, NCols(A))]
        ELSE [grid |-> FALSE, dfs |-> <<>>]

\* ------------------------------------------------------- instrument measures
\* macaulay_duration and ytm_convexity of a finite-period instrument.  Each
\* is a quotient, given as <<numerator, denominator>>.
macaulay_duration(bond) ==
    LET pairs == Iter(bond)
    IN  <<SeqSum([q \in 1..Len(pairs) |->
                     pairs[q][1] * pairs[q][2]
                         * present_value_factor(bond.ytm, PyInt(pairs[q][1]))]),
          bond.price>>

ytm_convexity(bond) ==
    LET pairs == Iter(bond)
    IN  <<SeqSum([q \in 1..Len(pairs) |->
                     pairs[q][1] * (pairs[q][1] + 1) * pairs[q][2]
                         * present_value_factor(bond.ytm, PyInt(pairs[q][1]))])
              * present_value_factor(bond.ytm, PyInt(2)),
          bond.price * Scale>>

\* ---------------------------------------------------------- yield solving
\* The per-period yields of the model.
Yields == {0, 1}

\* yield_to_maturity: optimize.newton on price(ytm) - bond_price from the
\* guess 0.05.  With a root among Yields the solver returns it.  With none,
\* the root (if any) is a real number outside the model: the solver returns
\* an off-grid yield or raises RuntimeError after its iteration budget.
yield_to_maturity(bond_price, face_value, periods, coupon) ==
    LET roots == {y \in Yields : price(face_value, coupon, periods, y) = bond_price}
    IN  IF roots # {} THEN [on_grid |-> TRUE, ytm |-> CHOOSE y \in roots : TRUE]
        ELSE [on_grid |-> FALSE, ytm |-> 0]

\* Zero.from_price(bond_price = df, periods = n, face_value = 1.0)
Zero_from_price(bond_price, face_value, periods) ==
    LET y == yield_to_maturity(bond_price, face_value, periods, 0)
    IN  [cls |-> "Zero", face_value |-> face_value, periods |-> periods,
         on_grid |-> y.on_grid, ytm |-> y.ytm]

\* ---------------------------------------------------------------- bootstrap
NotRun == [op |-> "bootstrap", raised |-> "none", solved |-> FALSE,
           prices |-> <<>>, cfs |-> <<>>, grid |-> FALSE, dfs |-> <<>>,
           zeros |-> <<>>]

\* bootstrap: the set of its possible outcomes on a portfolio.  The steps
\* are those of the function, in its order: the assertion on can_bootstrap,
\* the price vector, the cash-flow matrix, the solve, one Zero per solved
\* discount factor.
bootstrap(portfolio) ==
    LET eligible == can_bootstrap(portfolio)
    IN  IF eligible.raised # "none"
        THEN {[NotRun EXCEPT !.raised = eligible.raised]}
        ELSE IF ~eligible.value
        THEN {[NotRun EXCEPT !.raised = "AssertionError"]}
        ELSE
        LET prices == TupleOf([k \in 1..Len(portfolio) |-> portfolio[k].price],
                              Len(portfolio))
            cfs == cash_flows(portfolio)
            sol == Solve(cfs, prices)
            ran == [NotRun EXCEPT !.solved = TRUE, !.prices = prices,
                                  !.cfs = cfs, !.grid = sol.grid, !.dfs = sol.dfs]
            zeros == TupleOf([n \in 1..Len(sol.dfs) |->
                                 Zero_from_price(sol.dfs[n], 1, PyInt(n))],
                             Len(sol.dfs))
        IN  IF sol.grid /\ \A n \in 1..Len(zeros) : zeros[n].on_grid
            THEN {[ran EXCEPT !.zeros = zeros]}
            ELSE {[ran EXCEPT !.raised = "RuntimeError"],
                  [ran EXCEPT !.zeros =
                      TupleOf([n \in 1..NCols(cfs) |->
                                  IF sol.grid THEN zeros[n]
                                  ELSE [cls |-> "Zero", face_value |-> 1,
                                        periods |-> PyInt(n), on_grid |-> FALSE,
                                        ytm |-> 0]],
                              NCols(cfs))]}

\* ------------------------------------------------------------ float values
\* The binary digits after the point of a finite float of the model.
CBits == 8
CScale == Pow(2, CBits)

FNum(v) == [kind |-> "num", val |-> v]      \* the number v / CScale
FInt(n) == FNum(n * CScale)
FInf == [kind |-> "inf", val |-> 0]
FNegInf == [kind |-> "ninf", val |-> 0]
FNaN == [kind |-> "nan", val |-> 0]
FReal == [kind |-> "real", val |-> 0]       \* finite, not zero, not carried

IsZero(a) == a.kind = "num" /\ a.val = 0

\* -1, 0 or 1; the sign of a "real" is not known and is never asked for.
Sign(a) ==
    CASE a.kind = "inf" -> 1
      [] a.kind = "ninf" -> -1
      [] a.kind = "num" -> IF a.val > 0 THEN 1 ELSE IF a.val < 0 THEN -1 ELSE 0

FNeg(a) ==
    CASE a.kind = "inf" -> FNegInf
      [] a.kind = "ninf" -> FInf
      [] a.kind = "num" -> FNum(-a.val)
      [] OTHER -> a

FAdd(a, b) ==
    CASE a.kind = "nan" \/ b.kind = "nan" -> FNaN
      [] a.kind \in {"inf", "ninf"} /\ b.kind \in {"inf", "ninf"} ->
            IF a.kind = b.kind THEN a ELSE FNaN
      [] a.kind \in {"inf", "ninf"} -> a
      [] b.kind \in {"inf", "ninf"} -> b
      [] a.kind = "num" /\ b.kind = "num" -> FNum(a.val + b.val)
      [] OTHER -> FReal

FSub(a, b) == FAdd(a, FNeg(b))

FMul(a, b) ==
    CASE a.kind = "nan" \/ b.kind = "nan" -> FNaN
      [] a.kind \in {"inf", "ninf"} \/ b.kind \in {"inf", "ninf"} ->
            IF IsZero(a) \/ IsZero(b) THEN FNaN
            ELSE IF a.kind = "real" \/ b.kind = "real"
            THEN (IF a.kind = "real" THEN b ELSE a)
            ELSE IF Sign(a) * Sign(b) > 0 THEN FInf ELSE FNegInf
      [] IsZero(a) \/ IsZero(b) -> FNum(0)
      [] a.kind = "num" /\ b.kind = "num" ->
            IF (a.val * b.val) % CScale = 0
            THEN FNum((a.val * b.val) \div CScale) ELSE FReal
      [] OTHER -> FReal

\* numpy's division: x / 0 is an infinity, 0 / 0 is NaN.
FDiv(a, b) ==
    CASE a.kind = "nan" \/ b.kind = "nan" -> FNaN
      [] a.kind \in {"inf", "ninf"} /\ b.kind \in {"inf", "ninf"} -> FNaN
      [] b.kind \in {"inf", "ninf"} -> FNum(0)
      [] IsZero(b) ->
            IF IsZero(a) THEN FNaN
            ELSE IF a.kind = "real" THEN FInf
            ELSE IF Sign(a) > 0 THEN FInf ELSE FNegInf
      [] a.kind \in {"inf", "ninf"} ->
            IF b.kind = "real" THEN a
            ELSE IF Sign(a) * Sign(b) > 0 THEN FInf ELSE FNegInf
      [] a.kind = "num" /\ b.kind = "num" ->
            LET n == IF b.val < 0 THEN -(a.val * CScale) ELSE a.val * CScale
                d == IF b.val < 0 THEN -b.val ELSE b.val
            IN  IF n % d = 0 THEN FNum(n \div d) ELSE FReal
      [] OTHER -> FReal

\* exp(a), which is 2^a in the units of the model: exact for a whole a.
FExp(a) ==
    CASE a.kind = "nan" -> FNaN
      [] a.kind = "inf" -> FInf
      [] a.kind = "ninf" -> FNum(0)
      [] a.kind = "num" /\ a.val % CScale = 0 /\ a.val \div CScale <= CBits
                        /\ a.val \div CScale >= -CBits ->
            IF a.val >= 0 THEN FNum(CScale * Pow(2, a.val \div CScale))
            ELSE FNum(CScale \div Pow(2, (-a.val) \div CScale))
      [] OTHER -> FReal

\* ------------------------------------------------------------ trees.py
\* The time step of the trees, and the factor every tree price is multiplied
\* by: enough binary digits for maturity MaxZeros at the largest rates the
\* inputs below produce.
time_step == 1
ZBits == MaxZeros * MaxZeros + MaxZeros - 1
ZScale == Pow(2, ZBits)

Sqrt(x) == CHOOSE r \in 0..x : r * r = x

\* x * exp(-rate * time_step)
Discounted(rate, x) ==
    IF rate * time_step >= 0 THEN x \div Pow(2, rate * time_step)
    ELSE x * Pow(2, -(rate * time_step))

\* -1 / time_step * log(z), for a price z that is a power of two
NegLog(z) == (CHOOSE r \in 0..ZBits : z * Pow(2, r) = ZScale) \div time_step

\* The square of d, which can be wider than 32 bits: the digits
\* <<high, low>> of d * d in base SqBase * SqBase.
SqBase == Pow(2, 13)
Square(d) ==
    LET m == IF d < 0 THEN -d ELSE d
        a == m \div SqBase
        b == m % SqBase
        low == b * b + ((2 * a * b) % SqBase) * SqBase
    IN  <<a * a + (2 * a * b) \div SqBase + low \div (SqBase * SqBase),
          low % (SqBase * SqBase)>>

Less(e1, e2) == e1[1] < e2[1] \/ (e1[1] = e2[1] /\ e1[2] < e2[2])

\* np.zeros: a vector, a matrix and a stack of matrices, indexed from 0.
ZerosVec(n) == [k \in 0..(n - 1) |-> 0]
ZerosMat(n, m) == [r \in 0..(n - 1) |-> [c \in 0..(m - 1) |-> 0]]

initialize_tree(size, is_zero) ==
    IF is_zero
    THEN [r \in 0..size |-> [c \in 0..size |-> ZerosVec(size)]]
    ELSE ZerosMat(size, size)

\* A backward pass that takes the upper successor for both successors.
RECURSIVE BackfillFrom_upper_twice(_, _, _)
BackfillFrom_upper_twice(zero_tree, rate_tree, j) ==
    IF j = 0 THEN zero_tree
    ELSE BackfillFrom_upper_twice(
            [r \in DOMAIN zero_tree |->
                IF r < j
                THEN [zero_tree[r] EXCEPT ![j - 1] =
                         Discounted(rate_tree[r][j - 1],
                                    (zero_tree[r][j] + zero_tree[r][j]) \div 2)]
                ELSE zero_tree[r]],
            rate_tree, j - 1)

RECURSIVE BackfillFrom(_, _, _)
BackfillFrom(zero_tree, rate_tree, j) ==
    IF j = 0 THEN zero_tree
    ELSE BackfillFrom(
            [r \in DOMAIN zero_tree |->
                IF r < j
                THEN [zero_tree[r] EXCEPT ![j - 1] =
                         Discounted(rate_tree[r][j - 1],
                                    (zero_tree[r][j] + zero_tree[r + 1][j]) \div 2)]
                ELSE zero_tree[r]],
            rate_tree, j - 1)

backfill(rate_tree, period) ==
    LET zero_maturity == period + 2
        last == [r \in 0..(zero_maturity - 1) |->
                    [c \in 0..(zero_maturity - 1) |->
                        IF c = zero_maturity - 1 THEN ZScale ELSE 0]]
    IN  BackfillFrom(last, rate_tree, period + 1)

\* A ho_lee whose lower nodes are taken from the same row of the column
\* before, not from the row above.
ho_lee_same_row(theta, rate_tree, period, sigma) ==
    LET written ==
            [r \in DOMAIN rate_tree |->
                IF r = 0
                THEN [rate_tree[r] EXCEPT ![period] =
                         rate_tree[0][period - 1] + theta * time_step
                             + sigma * Sqrt(time_step)]
                ELSE IF r <= period
                THEN [rate_tree[r] EXCEPT ![period] =
                         rate_tree[r][period - 1] + theta * time_step
                             - sigma * Sqrt(time_step)]
                ELSE rate_tree[r]]
    IN  [rate_tree |-> written, zero_tree |-> backfill(written, period)]

\* A ho_lee that writes every row below the top one, as simple_bdt does.
ho_lee_full_column(theta, rate_tree, period, sigma) ==
    LET written ==
            [r \in DOMAIN rate_tree |->
                IF r = 0
                THEN [rate_tree[r] EXCEPT ![period] =
                         rate_tree[0][period - 1] + theta * time_step
                             + sigma * Sqrt(time_step)]
                ELSE [rate_tree[r] EXCEPT ![period] =
                         rate_tree[r - 1][period - 1] + theta * time_step
                             - sigma * Sqrt(time_step)]]
    IN  [rate_tree |-> written, zero_tree |-> backfill(written, period)]

\* A ho_lee that applies the drift to the column before as well.
ho_lee_redrifting(theta, rate_tree, period, sigma) ==
    LET written ==
            [r \in DOMAIN rate_tree |->
                IF r = 0
                THEN [rate_tree[r] EXCEPT
                         ![period - 1] = @ + theta * time_step,
                         ![period] =
                             rate_tree[0][period - 1] + theta * time_step
                                 + sigma * Sqrt(time_step)]
                ELSE IF r <= period
                THEN [rate_tree[r] EXCEPT ![period] =
                         rate_tree[r - 1][period - 1] + theta * time_step
                             - sigma * Sqrt(time_step)]
                ELSE rate_tree[r]]
    IN  [rate_tree |-> written, zero_tree |-> backfill(written, period)]

\* ho_lee writes column `period` of the rate tree it is given.
ho_lee(theta, rate_tree, period, sigma) ==
    LET written ==
            [r \in DOMAIN rate_tree |->
                IF r = 0
                THEN [rate_tree[r] EXCEPT ![period] =
                         rate_tree[0][period - 1] + theta * time_step
                             + sigma * Sqrt(time_step)]
                ELSE IF r <= period
                THEN [rate_tree[r] EXCEPT ![period] =
                         rate_tree[r - 1][period - 1] + theta * time_step
                             - sigma * Sqrt(time_step)]
                ELSE rate_tree[r]]
    IN  [rate_tree |-> written, zero_tree |-> backfill(written, period)]

\* The rates of a Black-Derman-Toy tree are carried multiplied by BdtScale:
\* a column is the column before times a power of two, exp(theta * dt +
\* sigma * sqrt(dt)) being 2^(theta + sigma) in the units of the model.
BdtScale == Pow(4, MaxZeros)

\* rate * exp(x)
TimesExp(rate, x) ==
    IF x >= 0 THEN rate * Pow(2, x) ELSE rate \div Pow(2, -x)

\* A simple_bdt that adds the drift and the volatility, as ho_lee does.
simple_bdt_additive(theta, rate_tree, period, sigma) ==
    [r \in DOMAIN rate_tree |->
        IF r = 0
        THEN [rate_tree[r] EXCEPT ![period] =
                 rate_tree[0][period - 1]
                     + (theta * time_step + sigma * Sqrt(time_step)) * BdtScale]
        ELSE [rate_tree[r] EXCEPT ![period] =
                 rate_tree[r - 1][period - 1]
                     + (theta * time_step - sigma * Sqrt(time_step)) * BdtScale]]

\* simple_bdt's rate tree: it writes rows 1 .. shape[0] - 1 of column
\* `period`, below the diagonal too.  (The zero tree it also returns, the
\* backfill of this rate tree, has prices that are no powers of two.)
simple_bdt(theta, rate_tree, period, sigma) ==
    [r \in DOMAIN rate_tree |->
        IF r = 0
        THEN [rate_tree[r] EXCEPT ![period] =
                 TimesExp(rate_tree[0][period - 1],
                          theta * time_step + sigma * Sqrt(time_step))]
        ELSE [rate_tree[r] EXCEPT ![period] =
                 TimesExp(rate_tree[r - 1][period - 1],
                          theta * time_step - sigma * Sqrt(time_step))]]

\* The cells <<row, column>> of the rate tree that one call of a model
\* function indexes: the nodes it assigns, the nodes of the column before
\* it reads, and the columns backfill discounts with.
evolution_cells(model, rate_tree, period) ==
    LET rows == IF model = "ho_lee" THEN 1..period
                ELSE 1..(Cardinality(DOMAIN rate_tree) - 1)
    IN  [writes |-> {<<0, period>>} \cup {<<r, period>> : r \in rows},
         reads |-> {<<0, period - 1>>}
                      \cup {<<r - 1, period - 1>> : r \in rows}
                      \cup UNION {{<<r, j - 1>> : r \in 0..(j - 1)} :
                                     j \in 1..(period + 1)}]

\* model(theta, rate_tree, period, sigma, time_step), for the model function
\* fit is given.
Models == {"ho_lee"}
CallModel(model, theta, rate_tree, period, sigma) ==
    CASE model = "ho_lee" -> ho_lee(theta, rate_tree, period, sigma)

\* error: the tree it is given is written too.
error(theta, zero, model, rate_tree, period, sigma) ==
    LET m == CallModel(model, theta, rate_tree, period, sigma)
    IN  [fun |-> Square(zero - m.zero_tree[0][0]), rate_tree |-> m.rate_tree]

\* Bond and option values are carried multiplied by PScale, enough binary
\* places for MaxSteps discounting steps at rates of up to ln 2 a step.
PScale == Pow(2, 2 * MaxSteps)

\* bond_price: the bond tree, (size + 1) x (size + 1), indexed from 0.
bond_price(rate_tree, coupon, maturity) ==
    LET size == PyTrunc(maturity, time_step)
        RECURSIVE Go(_, _)
        Go(bond_tree, j) ==
            IF j = 0 THEN bond_tree
            ELSE Go([r \in DOMAIN bond_tree |->
                        IF r < j
                        THEN [bond_tree[r] EXCEPT ![j - 1] =
                                 Discounted(rate_tree[r][j - 1],
                                     (bond_tree[r][j] + bond_tree[r + 1][j]) \div 2
                                         + coupon * time_step * PScale)]
                        ELSE bond_tree[r]],
                    j - 1)
    IN  Go([r \in 0..size |-> [c \in 0..size |->
               IF c = size THEN 100 * PScale ELSE 0]], size)

\* A call_price that is never exercised before the last column.
call_price_never_early(rate_tree, bond_tree, strike, maturity, first_time_call) ==
    LET size == PyTrunc(maturity, time_step)
        RECURSIVE Go(_, _)
        Go(call_tree, j) ==
            IF j = 0 THEN call_tree
            ELSE Go([r \in DOMAIN call_tree |->
                        IF r < j
                        THEN [call_tree[r] EXCEPT ![j - 1] =
                                 Discounted(rate_tree[r][j - 1],
                                     (call_tree[r][j] + call_tree[r + 1][j])
                                         \div 2)]
                        ELSE call_tree[r]],
                    j - 1)
    IN  Go([r \in 0..size |-> [c \in 0..size |->
               IF c = size THEN bond_tree[r][size] - strike * PScale ELSE 0]],
           size)

\* call_price: the call tree, (size + 1) x (size + 1), indexed from 0.
call_price(rate_tree, bond_tree, strike, maturity, first_time_call) ==
    LET size == PyTrunc(maturity, time_step)
        RECURSIVE Go(_, _)
        Go(call_tree, j) ==
            IF j = 0 THEN call_tree
            ELSE Go([r \in DOMAIN call_tree |->
                        IF r < j
                        THEN LET held ==
                                     Discounted(rate_tree[r][j - 1],
                                         (call_tree[r][j] + call_tree[r + 1][j])
                                             \div 2)
                                 exercised == bond_tree[r][j - 1] - strike * PScale
                             IN  [call_tree[r] EXCEPT ![j - 1] =
                                     IF (j - 1) * time_step >= first_time_call
                                        /\ exercised > held
                                     THEN exercised ELSE held]
                        ELSE call_tree[r]],
                    j - 1)
    IN  Go([r \in 0..size |-> [c \in 0..size |->
               IF c = size THEN bond_tree[r][size] - strike * PScale ELSE 0]],
           size)

\* -------------------------------------------------------- yieldcurves.py
\* A vector is a sequence of floats, a matrix a sequence of rows.
\* 1.0 / maturities, then inverse_maturities[inverse_maturities == inf] = 0.
ReplaceInf(a) == IF a.kind = "inf" THEN FNum(0) ELSE a

inverse_maturity_kept(m) == FDiv(FInt(1), m)

inverse_maturity(m) == ReplaceInf(FDiv(FInt(1), m))

nelson_siegel(theta0, theta1, theta2, kappa, maturities) ==
    [k \in DOMAIN maturities |->
        LET m == maturities[k]
            decay == FExp(FDiv(FNeg(m), kappa))
            y0 == FNum(0)
            y1 == FAdd(y0, theta0)
            y2 == FAdd(y1, FMul(FMul(FMul(FAdd(theta1, theta2),
                                          FSub(FInt(1), decay)),
                                     inverse_maturity(m)),
                                kappa))
        IN  FSub(y2, FMul(theta2, decay))]

\* NelsonSiegel.yields and NelsonSiegel.zeros of the model self.
NelsonSiegel_yields(self, maturities) ==
    nelson_siegel(self.theta0, self.theta1, self.theta2, self.kappa,
                  maturities)

NelsonSiegel_zeros(self, maturities) ==
    LET y == NelsonSiegel_yields(self, maturities)
    IN  [k \in DOMAIN maturities |-> FExp(FMul(FNeg(maturities[k]), y[k]))]

\* An array argument is [lib, data]: lib is "pandas" (a Series or a
\* DataFrame) or "numpy" (an ndarray); data is a vector or a matrix.  An
\* elementwise operation of a pandas object with anything is a pandas object.
Lib(a, b) == IF a.lib = "pandas" \/ b.lib = "pandas" THEN "pandas" ELSE "numpy"

\* .sum(): pandas skips the NaN entries (skipna=True), numpy adds them too.
RECURSIVE SumTo(_, _, _)
SumTo(v, n, skipna) ==
    IF n = 0 THEN FNum(0)
    ELSE IF skipna /\ v[n].kind = "nan" THEN SumTo(v, n - 1, skipna)
    ELSE FAdd(SumTo(v, n - 1, skipna), v[n])

\* yieldcurves.price: cashflows and zeros are matrices here, one row per instrument, so
\* the isinstance test fails and the rows are summed (axis=1).
yieldcurves_price(cashflows, zeros) ==
    [lib |-> Lib(cashflows, zeros),
     data |-> [r \in DOMAIN cashflows.data |->
                  SumTo([c \in DOMAIN cashflows.data[r] |->
                            FMul(cashflows.data[r][c], zeros.data[r][c])],
                        Len(cashflows.data[r]),
                        Lib(cashflows, zeros) = "pandas")]]

price_error(real_prices, fitted_prices) ==
    SumTo([r \in DOMAIN real_prices.data |->
              LET d == FSub(real_prices.data[r], fitted_prices.data[r])
              IN  FMul(d, d)],
          Len(real_prices.data),
          Lib(real_prices, fitted_prices) = "pandas")

ns_error(x, real_prices, cashflows, maturities) ==
    LET yields == [r \in DOMAIN maturities.data |->
                      nelson_siegel(x[1], x[2], x[3], x[4],
                                    maturities.data[r])]
        zeros == [lib |-> maturities.lib,
                  data |-> [r \in DOMAIN maturities.data |->
                               [c \in DOMAIN maturities.data[r] |->
                                   FExp(FMul(FNeg(maturities.data[r][c]),
                                             yields[r][c]))]]]
        fitted_prices == yieldcurves_price(cashflows, zeros)
    IN  price_error(real_prices, fitted_prices)

\* x0 = None is the empty vector.
None == <<>>

\* The minimize call of ns_fit: Powell from x0 or its default, no options.
ns_fit_call(x0) ==
    [method |-> "powell",
     x0 |-> IF x0 # None THEN x0
            ELSE <<FInt(0), FInt(0), FInt(0), FInt(1)>>,
     options |-> {}]

\* What minimize can return: the optimizer is SciPy's; of its result the
\* model keeps x, the start or a point of the set points, fun, the objective
\* there, and success, which is False when the optimizer used up its
\* iteration budget.  minimize raises nothing of its own.
ns_fit(real_prices, cashflows, maturities, x0, points) ==
    {[x |-> x,
      fun |-> ns_error(x, real_prices, cashflows, maturities),
      success |-> b] :
        x \in points \cup {ns_fit_call(x0).x0}, b \in BOOLEAN}

\* One element of vasicek's vectorised computation.
vasicek_at(eta, gamma, r0, sigma, m) ==
    LET inverse == ReplaceInf(FDiv(FInt(1), m))
        sigma2 == FMul(sigma, sigma)
        b == FMul(FDiv(FInt(1), gamma),
                  FSub(FInt(1), FExp(FMul(FNeg(gamma), m))))
        a == FSub(FMul(FMul(FDiv(FInt(1), FMul(gamma, gamma)), FSub(b, m)),
                       FSub(FMul(eta, gamma),
                            FMul(FNum(CScale \div 2), sigma2))),
                  FDiv(FMul(sigma2, FMul(b, b)), FMul(FInt(4), gamma)))
    IN  FMul(FAdd(FNeg(a), FMul(b, r0)), inverse)

vasicek_error(x, r0, sigma, real_prices, cashflows, maturities) ==
    LET yields == [r \in DOMAIN maturities.data |->
                      [c \in DOMAIN maturities.data[r] |->
                          vasicek_at(x[1], x[2], r0, sigma,
                                     maturities.data[r][c])]]
        zeros == [lib |-> maturities.lib,
                  data |-> [r \in DOMAIN maturities.data |->
                               [c \in DOMAIN maturities.data[r] |->
                                   FExp(FMul(FNeg(maturities.data[r][c]),
                                             yields[r][c]))]]]
        priced == yieldcurves_price(cashflows, zeros)
        fitted_prices == [lib |-> priced.lib,
                          data |-> [r \in DOMAIN priced.data |->
                                       ReplaceInf(priced.data[r])]]
    IN  price_error(real_prices, fitted_prices)

\* The minimize call of vasicek_fit: Nelder-Mead from x0 or its default
\* [0.1, 0.1], at most 1000 iterations.
vasicek_fit_call(x0) ==
    [method |-> "Nelder-Mead",
     x0 |-> IF x0 # None THEN x0 ELSE <<FReal, FReal>>,
     options |-> {<<"maxiter", 1000>>}]

\* vasicek and vasicek_error call .replace, which a pandas object has and an
\* ndarray has not: the AttributeError of the first objective evaluation
\* leaves minimize.
vasicek_fit_raises(maturities) == maturities.lib # "pandas"

vasicek_fit(r0, sigma, real_prices, cashflows, maturities, x0, points) ==
    {[x |-> x,
      fun |-> vasicek_error(x, r0, sigma, real_prices, cashflows,
                            maturities),
      success |-> b] :
        x \in points \cup {vasicek_fit_call(x0).x0}, b \in BOOLEAN}

\* ---------------------------------------------------------------- rates.py
\* What a call gives: the exception it raised, or "none" and its value.
Returned(v) == [raised |-> "none", value |-> v]
Raised(e) == [raised |-> e, value |-> FNaN]

InvalidFreq == "ValueError: Freq must be math.inf or positive int"

\* The k with a = 2^k for a finite a > 0 that is a power of two; CBits + 1
\* for any other a.
Log2(a) ==
    IF \E k \in 0..CBits : a.val = CScale * Pow(2, k)
    THEN CHOOSE k \in 0..CBits : a.val = CScale * Pow(2, k)
    ELSE IF \E k \in 1..CBits : a.val * Pow(2, k) = CScale
    THEN -(CHOOSE k \in 1..CBits : a.val * Pow(2, k) = CScale)
    ELSE CBits + 1

\* math.log, in the unit ln 2.
math_log(a) ==
    IF a.kind = "num" /\ a.val <= 0
    THEN Raised("ValueError: math domain error")
    ELSE IF a.kind = "num" /\ Log2(a) # CBits + 1
    THEN Returned(FInt(Log2(a)))
    ELSE Returned(FReal)

\* math.pow(b, e) for finite arguments.
math_pow(b, e) ==
    IF b.kind = "num" /\ b.val = 0
    THEN (IF e.kind = "num" /\ e.val = 0 THEN Returned(FInt(1))
          ELSE IF e.kind = "num" /\ e.val > 0 THEN Returned(FNum(0))
          ELSE Raised("ValueError: math domain error"))
    ELSE IF b.kind = "num" /\ b.val < 0
    THEN (IF e.kind = "num" /\ e.val % CScale = 0 THEN Returned(FReal)
          ELSE Raised("ValueError: math domain error"))
    ELSE IF b.kind = "num" /\ e.kind = "num" /\ Log2(b) # CBits + 1
    THEN Returned(FExp(FNum(Log2(b) * e.val)))
    ELSE Returned(FReal)

is_valid_freq_any_int(freq) ==
    freq.kind \notin {"inf", "ninf", "nan"} /\ freq.kind = "int"

\* math.isfinite(freq) and isinstance(freq, int) and freq > 0
is_valid_freq(freq) ==
    freq.kind \notin {"inf", "ninf", "nan"} /\ freq.kind = "int"
        /\ freq.val > 0

discount_factor_from(spot_rate, term, freq) ==
    IF freq.kind = "inf"
    THEN Returned(FExp(FMul(FNeg(spot_rate), term)))
    ELSE IF is_valid_freq(freq)
    THEN IF freq.val = 0 THEN Raised("ZeroDivisionError")    \* spot_rate / freq
         ELSE math_pow(FAdd(FInt(1), FDiv(spot_rate, FInt(freq.val))),
                       FMul(FNeg(FInt(freq.val)), term))
    ELSE Raised(InvalidFreq)

\* discount_factor is a float here, so package is math.
spot_rate_from(discount_factor, term, freq) ==
    IF freq.kind = "inf"
    THEN IF IsZero(term) THEN Raised("ZeroDivisionError")
         ELSE LET lg == math_log(discount_factor)
              IN  IF lg.raised # "none" THEN lg
                  ELSE Returned(FMul(FDiv(FInt(-1), term), lg.value))
    ELSE IF is_valid_freq(freq)
    THEN IF IsZero(FMul(FInt(freq.val), term)) THEN Raised("ZeroDivisionError")
         ELSE LET pw == math_pow(discount_factor,
                                 FDiv(FInt(-1), FMul(FInt(freq.val), term)))
              IN  IF pw.raised # "none" THEN pw
                  ELSE Returned(FMul(FInt(freq.val),
                                     FSub(pw.value, FInt(1))))
    ELSE Raised(InvalidFreq)

\* forward_df = df_2 / df_1
forward_df_inverted(df_1, df_2) == FDiv(df_1, df_2)

forward_df(df_1, df_2) == FDiv(df_2, df_1)

\* Returns the pair <<term, rate>>.
forward_rate_from(rate_1, term_1, rate_2, term_2, freq) ==
    LET term == FSub(term_2, term_1)
    IN  IF freq.kind = "inf"
        THEN IF IsZero(term) THEN Raised("ZeroDivisionError")
             ELSE Returned(<<term,
                             FDiv(FSub(FMul(rate_2, term_2),
                                       FMul(rate_1, term_1)), term)>>)
        ELSE IF is_valid_freq(freq)
        THEN LET df_1 == discount_factor_from(rate_1, term_1, freq)
                 df_2 == discount_factor_from(rate_2, term_2, freq)
             IN  IF df_1.raised # "none" THEN df_1
                 ELSE IF df_2.raised # "none" THEN df_2
                 ELSE IF IsZero(df_1.value) THEN Raised("ZeroDivisionError")
                 ELSE LET rate == spot_rate_from(
                                      forward_df(df_1.value, df_2.value),
                                      term, freq)
                      IN  IF rate.raised # "none" THEN rate
                          ELSE Returned(<<term, rate.value>>)
        ELSE Raised(InvalidFreq)

\* -------------------------------------------------------------------- state
VARIABLES
    ytm,        \* the market's per-period yield, at which instruments are built
    portfolio,  \* the finite-period instruments built so far, in order
    out         \* what the last operation returned or raised

\* One call of trees.fit.
VARIABLES
    pc,         \* where the call is: "loop", "minimize", "return", "done"
    model,      \* fit's arguments: the model function,
    zeros,      \*   the target zero prices,
    sigma,      \*   the volatility
    i,          \* the loop variable: the period being calibrated
    rate_tree,  \* fit's locals
    zero_tree,
    thetas,
    errors,
    args_tree,  \* the rate_tree.copy() handed to the minimizer in args
    best,       \* inside minimize: the best point evaluated so far
    trials,     \*   and the number of evaluations after x0
    result,     \* what the last minimize returned
    ret         \* what fit returned

\* A rate tree that simple_bdt builds column by column.
VARIABLE
    bdt         \* its volatility, the next period, the drifts used, the tree

bondVars == <<ytm, portfolio, out>>
treeVars == <<pc, model, zeros, sigma, i, rate_tree, zero_tree, thetas, errors,
              args_tree, best, trials, result, ret>>
bdtVars == <<bdt>>
vars == <<bondVars, treeVars, bdtVars>>

NoResult == [x |-> 0, fun |-> <<0, 0>>, success |-> FALSE]
NoBest == [x |-> 0, fun |-> <<0, 0>>]
NoReturn == [returned |-> FALSE]

\* No call of fit is under way.
TreesIdle ==
    /\ pc = "off" /\ model = "ho_lee" /\ zeros = ZerosVec(1) /\ sigma = 0
    /\ i = 0 /\ rate_tree = ZerosMat(1, 1) /\ zero_tree = initialize_tree(1, TRUE)
    /\ thetas = ZerosVec(1) /\ errors = [k \in 0..0 |-> <<0, 0>>]
    /\ args_tree = ZerosMat(1, 1) /\ best = NoBest /\ trials = 0
    /\ result = NoResult /\ ret = NoReturn

\* No instrument has been built.
BondsIdle == ytm = 0 /\ portfolio = <<>> /\ out = [op |-> "none"]

\* No Black-Derman-Toy tree is being built.
BdtIdle == bdt = [on |-> FALSE]

FaceValues == {100}
Coupons == {2}
CouponRates == {4}
FloatHalves == {-1, 1, 4, 5}
PeriodArgs == {PyInt(n) : n \in (-1)..MaxPeriods}
                \cup {PyFloat(h) : h \in FloatHalves} \cup {PyInf, PyNegInf}
MaturityQuarters == (-2)..(2 * MaxPeriods + 1)

InitBonds ==
    /\ ytm \in Yields
    /\ portfolio = <<>>
    /\ out = [op |-> "none"]
    /\ TreesIdle
    /\ BdtIdle

\* A constructor call.  A finite-period instrument joins the portfolio.
Built(cls, arg, r) ==
    /\ out' = [op |-> "construct", cls |-> cls, arg |-> arg,
               raised |-> r.raised, obj |-> r.obj]
    /\ portfolio' = IF r.raised = "none" /\ r.obj.periods.kind = "int"
                    THEN Append(portfolio, r.obj) ELSE portfolio
    /\ UNCHANGED <<ytm, treeVars, bdtVars>>

ConstructCouponBond ==
    /\ Len(portfolio) < MaxPortfolio
    /\ \E face_value \in FaceValues, coupon \in Coupons, periods \in PeriodArgs :
          \* at zero yield an infinite horizon prices to the float inf
          /\ ~(periods.kind = "inf" /\ ytm = 0)
          /\ Built("CouponBond", periods,
                   CouponBond_init("CouponBond", face_value, coupon, periods, ytm))

ConstructZero ==
    /\ Len(portfolio) < MaxPortfolio
    /\ \E face_value \in FaceValues, periods \in PeriodArgs :
          /\ ~(periods.kind = "inf" /\ ytm = 0)
          /\ Built("Zero", periods, Zero_init(face_value, periods, ytm))

ConstructTreasuryNote ==
    /\ Len(portfolio) < MaxPortfolio
    /\ \E coupon_rate \in CouponRates, maturity_quarters \in MaturityQuarters :
          Built("TreasuryNote", PyFloat(maturity_quarters),
                TreasuryNote_init(coupon_rate, maturity_quarters,
                                  TreasuryNote_freq * ytm))

ConstructPerpetuity ==
    /\ Len(portfolio) < MaxPortfolio
    /\ ytm # 0
    /\ \E coupon \in Coupons :
          Built("Perpetuity", PyInf, Perpetuity_init(coupon, ytm))

CanBootstrap ==
    /\ out' = [op |-> "can_bootstrap",
               raised |-> can_bootstrap(portfolio).raised,
               eligible |-> can_bootstrap(portfolio).value]
    /\ UNCHANGED <<ytm, portfolio, treeVars, bdtVars>>

\* max() of an empty portfolio raises ValueError.
CashFlowsCall(pf) ==
    IF Len(pf) = 0
    THEN [op |-> "cash_flows", raised |-> "ValueError", rows |-> <<>>]
    ELSE [op |-> "cash_flows", raised |-> "none", rows |-> cash_flows(pf)]

CashFlows ==
    /\ out' = CashFlowsCall(portfolio)
    /\ UNCHANGED <<ytm, portfolio, treeVars, bdtVars>>

Bootstrap ==
    /\ \E o \in bootstrap(portfolio) : out' = o
    /\ UNCHANGED <<ytm, portfolio, treeVars, bdtVars>>

\* list(bond), twice.
Iterate ==
    /\ \E k \in 1..Len(portfolio) :
          out' = [op |-> "iter", k |-> k,
                  first |-> Iter(portfolio[k]), second |-> Iter(portfolio[k])]
    /\ UNCHANGED <<ytm, portfolio, treeVars, bdtVars>>

Measure_resetting ==
    /\ \E k \in 1..Len(portfolio) :
          /\ out' = [op |-> "measure", k |-> k]
          /\ portfolio' = [portfolio EXCEPT ![k].price = 0]
    /\ UNCHANGED <<ytm, treeVars, bdtVars>>

\* Reading bond.price, bond.macaulay_duration (which duration returns),
\* bond.modified_duration and bond.ytm_convexity.
Measure ==
    /\ \E k \in 1..Len(portfolio) :
          LET bond == portfolio[k]
              md == macaulay_duration(bond)
          IN  out' = [op |-> "measure", k |-> k,
                      read_price |-> bond.price,
                      read_duration |-> md,
                      read_modified |-> <<md[1], md[2] * (1 + bond.ytm)>>,
                      read_convexity |-> ytm_convexity(bond)]
    /\ UNCHANGED <<ytm, portfolio, treeVars, bdtVars>>

NextBonds ==
    \/ Measure
    \/ ConstructCouponBond
    \/ ConstructZero
    \/ ConstructTreasuryNote
    \/ ConstructPerpetuity
    \/ CanBootstrap
    \/ CashFlows
    \/ Bootstrap
    \/ Iterate

SpecBonds == InitBonds /\ [][NextBonds]_vars

\* ---------------------------------------------------------------- trees.fit
\* The arguments of fit: a target curve of up to MaxZeros prices, each a power
\* of two, the first at most one; a volatility; and the drifts the minimizer
\* may try.
ZeroPrices == {ZScale \div Pow(2, m) : m \in 0..MaxZeros}
Sigmas == {0, 1}
Thetas == {0, 1}

\* fit up to its loop: r0, the two trees, thetas and errors.
FitSetup(zs, r_tree, z_tree) ==
    LET n == Cardinality(DOMAIN zs)
        r0 == NegLog(zs[0])
        size == PyTrunc(n * time_step, time_step)
    IN  /\ r_tree = [initialize_tree(size, FALSE) EXCEPT ![0][0] = r0]
        /\ z_tree = [initialize_tree(size, TRUE) EXCEPT
                        ![0][0][0] = Discounted(r0, ZScale),
                        ![0][1][0] = ZScale,
                        ![1][1][0] = ZScale]

InitTrees ==
    /\ BondsIdle
    /\ BdtIdle
    /\ model \in Models
    /\ \E n \in 1..MaxZeros :
          zeros \in {zs \in [0..(n - 1) -> ZeroPrices] : 2 * zs[0] >= ZScale}
    /\ sigma \in Sigmas
    /\ FitSetup(zeros, rate_tree, zero_tree)
    /\ thetas = ZerosVec(Cardinality(DOMAIN zeros))
    /\ errors = [k \in DOMAIN zeros |-> <<0, 0>>]
    /\ i = 1
    /\ pc = "loop"
    /\ args_tree = rate_tree
    /\ best = NoBest
    /\ trials = 0
    /\ result = NoResult
    /\ ret = NoReturn

NumZeros == Cardinality(DOMAIN zeros)

\* minimize is called for period i with x0 = [0] and a copy of the rate tree
\* in args, and evaluates the objective at x0.
MinimizeCall ==
    /\ pc = "loop"
    /\ i < NumZeros
    /\ LET e == error(0, zeros[i], model, rate_tree, i, sigma)
       IN  /\ args_tree' = e.rate_tree
           /\ best' = [x |-> 0, fun |-> e.fun]
    /\ trials' = 0
    /\ pc' = "minimize"
    /\ UNCHANGED <<bondVars, bdtVars, model, zeros, sigma, i, rate_tree,
                   zero_tree, thetas, errors, result, ret>>

\* The minimizer evaluates the objective at another theta, on the same copy.
Evaluate ==
    /\ pc = "minimize"
    /\ trials < MaxTrials
    /\ \E theta \in Thetas :
          LET e == error(theta, zeros[i], model, args_tree, i, sigma)
          IN  /\ args_tree' = e.rate_tree
              /\ best' = IF Less(e.fun, best.fun)
                         THEN [x |-> theta, fun |-> e.fun] ELSE best
    /\ trials' = trials + 1
    /\ UNCHANGED <<bondVars, bdtVars, pc, model, zeros, sigma, i, rate_tree,
                   zero_tree, thetas, errors, result, ret>>

\* The loop body after minimize has returned `res`.
Commit(res) ==
    LET theta == res.x
        m == CallModel(model, theta, rate_tree, i, sigma)
    IN  /\ result' = res
        /\ thetas' = [thetas EXCEPT ![i - 1] = theta]
        /\ errors' = [errors EXCEPT ![i - 1] = res.fun]
        /\ rate_tree' = m.rate_tree
        /\ zero_tree' = [r \in DOMAIN zero_tree |-> [c \in DOMAIN zero_tree[r] |->
                            IF r < i + 2 /\ c < i + 2
                            THEN [zero_tree[r][c] EXCEPT ![i] = m.zero_tree[r][c]]
                            ELSE zero_tree[r][c]]]
        /\ i' = i + 1
        /\ pc' = "loop"
        /\ UNCHANGED <<bondVars, bdtVars, model, zeros, sigma, args_tree, best,
                       trials, ret>>

\* A fit that gives up on a period whose minimization did not converge.
FitStep_raise ==
    /\ pc = "minimize"
    /\ \E success \in BOOLEAN :
          IF success
          THEN Commit([x |-> best.x, fun |-> best.fun, success |-> success])
          ELSE /\ pc' = "raised"
               /\ UNCHANGED <<bondVars, bdtVars, model, zeros, sigma, i, rate_tree,
                              zero_tree, thetas, errors, args_tree, best,
                              trials, result, ret>>

\* minimize returns its best point, having converged or not, and the loop
\* body goes on with it.
FitStep ==
    /\ pc = "minimize"
    /\ \E success \in BOOLEAN :
          Commit([x |-> best.x, fun |-> best.fun, success |-> success])

\* A fit that returns one period early.
FitReturn_early ==
    /\ pc = "loop"
    /\ i >= NumZeros - 1
    /\ ret' = [returned |-> TRUE,
               thetas |-> thetas,
               fitted_zeros |->
                   [ndim |-> IF NumZeros = 1 THEN 0 ELSE 1,
                    values |-> [k \in DOMAIN zeros |-> zero_tree[0][0][k]]],
               rate_tree |-> rate_tree]
    /\ pc' = "done"
    /\ UNCHANGED <<bondVars, bdtVars, model, zeros, sigma, i, rate_tree, zero_tree,
                   thetas, errors, args_tree, best, trials, result>>

\* After the last period: fitted_zeros and the return statement.  squeeze()
\* drops every axis of length 1, so the vector of a single price comes back
\* as an array of no dimension: ndim is the number of axes of the result.
FitReturn ==
    /\ pc = "loop"
    /\ i >= NumZeros
    /\ ret' = [returned |-> TRUE,
               thetas |-> thetas,
               fitted_zeros |->
                   [ndim |-> IF NumZeros = 1 THEN 0 ELSE 1,
                    values |-> [k \in DOMAIN zeros |-> zero_tree[0][0][k]]],
               rate_tree |-> rate_tree]
    /\ pc' = "done"
    /\ UNCHANGED <<bondVars, bdtVars, model, zeros, sigma, i, rate_tree, zero_tree,
                   thetas, errors, args_tree, best, trials, result>>

NextTrees ==
    \/ MinimizeCall
    \/ Evaluate
    \/ FitStep
    \/ FitReturn

SpecTrees == InitTrees /\ [][NextTrees]_vars

\* fit is sequential code: a call that can take a step takes it.
SpecTreesFair == SpecTrees /\ WF_vars(NextTrees)

\* ------------------------------------------------- fit with simple_bdt
\* The rate tree of fit(simple_bdt, zeros, sigma, time_step): r0 from the
\* first target price, then one call of simple_bdt per period, with whatever
\* theta the minimization of that period returned.
\* zeros[0] is 2^-m and each fitted theta is -1, 0 or 1.

InitBdt ==
    /\ BondsIdle
    /\ TreesIdle
    /\ \E n \in 1..MaxZeros, m \in 0..MaxZeros, s \in Sigmas :
          bdt = [on |-> TRUE,
                 sigma |-> s,
                 period |-> 1,
                 thetas |-> ZerosVec(n),
                 rate_tree |-> [initialize_tree(n, FALSE) EXCEPT
                                   ![0][0] = (m \div time_step) * BdtScale]]

BdtStep ==
    /\ bdt.on
    /\ bdt.period < Cardinality(DOMAIN bdt.thetas)
    /\ \E theta \in {-1, 0, 1} :
          bdt' = [bdt EXCEPT
                     !.thetas[bdt.period - 1] = theta,
                     !.rate_tree = simple_bdt(theta, bdt.rate_tree, bdt.period,
                                              bdt.sigma),
                     !.period = bdt.period + 1]
    /\ UNCHANGED <<bondVars, treeVars>>

NextBdt == BdtStep

SpecBdt == InitBdt /\ [][NextBdt]_vars

\* A rate tree under construction, by fit with ho_lee or by simple_bdt
\* called for the periods in order.
SpecRateTrees == (InitTrees \/ InitBdt) /\ [][NextTrees \/ NextBdt]_vars

\* ---------------------------------------------------- yield curve calls
\* Calls of the functions of yieldcurves.py; out holds the last call.
\* The points the optimizers may stop at.
Xs == {<<FInt(0), FInt(0), FInt(0), FInt(1)>>,
       <<FInt(1), FInt(0), FInt(0), FInt(1)>>,
       <<FInt(0), FInt(1), FInt(0), FInt(1)>>}
VasicekXs == {<<FInt(0), FInt(1)>>, <<FInt(1), FInt(1)>>}

\* The data of a fit: a price per instrument, possibly missing, and a row of
\* cashflows per instrument on the maturities 1 and 2, each as a pandas or a
\* numpy object.
FitInputs ==
    UNION {{[real_prices |-> [lib |-> pl, data |-> ps],
             cashflows |-> [lib |-> fl, data |-> cs],
             cf_maturities |-> [lib |-> fl,
                                data |-> [r \in 1..n |->
                                             <<FInt(1), FInt(2)>>]]] :
               pl \in {"pandas", "numpy"}, fl \in {"pandas", "numpy"},
               ps \in [1..n -> {FNaN, FInt(1), FInt(2)}],
               cs \in [1..n -> {<<FInt(1), FInt(0)>>, <<FInt(0), FInt(1)>>,
                                <<FInt(1), FInt(1)>>}]} :
           n \in 1..MaxCurve}

\* The calls that can be made: the function and its arguments.
CurveCalls ==
    {[op |-> "call", fn |-> "NelsonSiegel.zeros",
      self |-> [theta0 |-> t0, theta1 |-> t1, theta2 |-> t2, kappa |-> k],
      maturities |-> ms] :
        t0 \in {FInt(-1), FInt(0), FInt(1)},
        t1 \in {FInt(-1), FInt(0), FInt(1)},
        t2 \in {FInt(-1), FInt(0), FInt(1)},
        k \in {FInt(-1), FInt(1), FInt(2)},
        ms \in UNION {[1..n -> {FInt(0), FNum(CScale \div 2), FInt(1),
                                FInt(2)}] : n \in 1..MaxCurve}}
    \cup
    {[op |-> "call", fn |-> "ns_error", x |-> x, inputs |-> a] :
        x \in Xs, a \in FitInputs}
    \cup
    {[op |-> "call", fn |-> f, inputs |-> a, x0 |-> g] :
        f \in {"ns_fit", "NelsonSiegel.from_fit"}, a \in FitInputs,
        g \in {None, <<FInt(1), FInt(0), FInt(0), FInt(1)>>}}
    \cup
    {[op |-> "call", fn |-> f, inputs |-> a, x0 |-> g, r0 |-> FInt(1),
      vol |-> v] :
        f \in {"vasicek_fit", "Vasicek.from_fit"}, a \in FitInputs,
        g \in {None, <<FInt(1), FInt(1)>>}, v \in {FInt(0), FInt(2)}}

InitCurves ==
    /\ ytm = 0
    /\ portfolio = <<>>
    /\ out \in CurveCalls
    /\ TreesIdle
    /\ BdtIdle

\* NelsonSiegel(theta0, theta1, theta2, kappa).zeros(maturities)
NelsonSiegelZeros ==
    /\ out.op = "call"
    /\ out.fn = "NelsonSiegel.zeros"
    /\ out' = [op |-> "NelsonSiegel.zeros",
               self |-> out.self,
               maturities |-> out.maturities,
               ns_yields |-> NelsonSiegel_yields(out.self, out.maturities),
               ns_zeros |-> NelsonSiegel_zeros(out.self, out.maturities)]
    /\ UNCHANGED <<ytm, portfolio, treeVars, bdtVars>>

\* ns_error(x, real_prices, cashflows, maturities)
NsError ==
    /\ out.op = "call"
    /\ out.fn = "ns_error"
    /\ out' = [op |-> "ns_error",
               x |-> out.x,
               inputs |-> out.inputs,
               objective |-> ns_error(out.x, out.inputs.real_prices,
                                      out.inputs.cashflows,
                                      out.inputs.cf_maturities)]
    /\ UNCHANGED <<ytm, portfolio, treeVars, bdtVars>>

\* ns_fit(real_prices, cashflows, maturities, x0): returns what minimize
\* returned.
NsFit ==
    /\ out.op = "call"
    /\ out.fn = "ns_fit"
    /\ \E res \in ns_fit(out.inputs.real_prices, out.inputs.cashflows,
                         out.inputs.cf_maturities, out.x0, Xs) :
          out' = [op |-> "ns_fit",
                  inputs |-> out.inputs,
                  call |-> ns_fit_call(out.x0),
                  raised |-> "none",
                  fit |-> res,
                  returned_result |-> res]
    /\ UNCHANGED <<ytm, portfolio, treeVars, bdtVars>>

\* NelsonSiegel.from_fit(real_prices, cashflows, cashflow_maturities, x0):
\* result = ns_fit(...), then the model built from result.x is returned.
NelsonSiegelFromFit ==
    /\ out.op = "call"
    /\ out.fn = "NelsonSiegel.from_fit"
    /\ \E res \in ns_fit(out.inputs.real_prices, out.inputs.cashflows,
                         out.inputs.cf_maturities, out.x0, Xs) :
          out' = [op |-> "NelsonSiegel.from_fit",
                  inputs |-> out.inputs,
                  call |-> ns_fit_call(out.x0),
                  raised |-> "none",
                  fit |-> res,
                  returned_model |->
                      [cls |-> "NelsonSiegel", theta0 |-> res.x[1],
                       theta1 |-> res.x[2], theta2 |-> res.x[3],
                       kappa |-> res.x[4]]]
    /\ UNCHANGED <<ytm, portfolio, treeVars, bdtVars>>

\* vasicek_fit(r0, sigma, real_prices, cashflows, maturities, x0)
VasicekFit ==
    /\ out.op = "call"
    /\ out.fn = "vasicek_fit"
    /\ IF vasicek_fit_raises(out.inputs.cf_maturities)
       THEN out' = [op |-> "vasicek_fit",
                    inputs |-> out.inputs,
                    call |-> vasicek_fit_call(out.x0),
                    raised |-> "AttributeError"]
       ELSE \E res \in vasicek_fit(out.r0, out.vol, out.inputs.real_prices,
                                   out.inputs.cashflows,
                                   out.inputs.cf_maturities, out.x0,
                                   VasicekXs) :
               out' = [op |-> "vasicek_fit",
                       inputs |-> out.inputs,
                       call |-> vasicek_fit_call(out.x0),
                       raised |-> "none",
                       fit |-> res,
                       returned_result |-> res]
    /\ UNCHANGED <<ytm, portfolio, treeVars, bdtVars>>

\* Vasicek.from_fit(r0, sigma, real_prices, cashflows, cashflow_maturities,
\* x0): result = vasicek_fit(...), then the model built from result.x, r0
\* and sigma is returned.
VasicekFromFit ==
    /\ out.op = "call"
    /\ out.fn = "Vasicek.from_fit"
    /\ IF vasicek_fit_raises(out.inputs.cf_maturities)
       THEN out' = [op |-> "Vasicek.from_fit",
                    inputs |-> out.inputs,
                    call |-> vasicek_fit_call(out.x0),
                    raised |-> "AttributeError"]
       ELSE \E res \in vasicek_fit(out.r0, out.vol, out.inputs.real_prices,
                                   out.inputs.cashflows,
                                   out.inputs.cf_maturities, out.x0,
                                   VasicekXs) :
               out' = [op |-> "Vasicek.from_fit",
                       inputs |-> out.inputs,
                       call |-> vasicek_fit_call(out.x0),
                       raised |-> "none",
                       fit |-> res,
                       returned_model |->
                           [cls |-> "Vasicek", eta |-> res.x[1],
                            gamma |-> res.x[2], r0 |-> out.r0,
                            sigma |-> out.vol]]
    /\ UNCHANGED <<ytm, portfolio, treeVars, bdtVars>>

NextCurves ==
    \/ NelsonSiegelZeros
    \/ NsError
    \/ NsFit
    \/ NelsonSiegelFromFit
    \/ VasicekFit
    \/ VasicekFromFit

SpecCurves == InitCurves /\ [][NextCurves]_vars

\* ------------------------------------------------------ floating rate bonds
\* A FloatingRateBond after its construction, and reset called on it; out
\* holds the floater and the last call.
InitFloater ==
    /\ ytm = 0
    /\ portfolio = <<>>
    /\ TreesIdle
    /\ BdtIdle
    /\ \E maturity_quarters \in {4, 6}, interest_rate \in {0, 2},
          spread_rate \in {0, 4}, freq \in {1, 2}, face_value \in FaceValues :
          LET made == FloatingRateBond_init(maturity_quarters, interest_rate,
                                            spread_rate, freq, face_value)
          IN  /\ made.raised = "none"
              /\ out = [op |-> "FloatingRateBond", floater |-> made.obj]

\* floater.reset(period, interest_rate), and floater.coupon read after it.
\* A floater is reset while it has periods left.
Reset ==
    /\ out.op \in {"FloatingRateBond", "reset"}
    /\ out.floater.periods.val > 0
    /\ \E period \in 1..2, interest_rate \in {0, 2} :
          LET called == FloatingRateBond_reset(out.floater, period, interest_rate)
              after == called.obj
          IN  out' = [op |-> "reset",
                      reset_period |-> period,
                      new_rate |-> interest_rate,
                      reset_raised |-> called.raised,
                      floater_before |-> out.floater,
                      floater |-> after,
                      coupon_read |->
                          IF "par" \in DOMAIN after
                          THEN [raised |-> "none",
                                value |-> after.fixed_bond.coupon
                                    + to_coupon(after.par,
                                                100 * after.interest_rate,
                                                after.freq)]
                          ELSE [raised |-> "AttributeError", value |-> 0]]
    /\ UNCHANGED <<ytm, portfolio, treeVars, bdtVars>>

SpecFloater == InitFloater /\ [][Reset]_vars

\* ------------------------------------------------------- pricing on a tree
\* Calls of bond_price and call_price; out holds the last call.  The rate
\* tree of a call is size x size with a rate of 0 or ln 2 at each node on or
\* above the diagonal; call_price is given the bond tree of the same rates.
InitPricing ==
    /\ ytm = 0
    /\ portfolio = <<>>
    /\ TreesIdle
    /\ BdtIdle
    /\ \E size \in 1..MaxSteps :
       \E tree \in [0..(size - 1) -> [0..(size - 1) -> {0, 1}]] :
       \E c \in {0, 2} :
          /\ \A r \in 0..(size - 1) : \A k \in 0..(size - 1) :
                r > k => tree[r][k] = 0
          /\ \/ out = [op |-> "call", fn |-> "bond_price", rates |-> tree,
                       coupon |-> c, maturity |-> size * time_step]
             \/ \E strike \in {98, 100, 104}, first \in 0..(MaxSteps + 1) :
                   out = [op |-> "call", fn |-> "call_price", rates |-> tree,
                          coupon |-> c, maturity |-> size * time_step,
                          strike |-> strike, first_time_call |-> first]

BondPrice ==
    /\ out.op = "call"
    /\ out.fn = "bond_price"
    /\ out' = [op |-> "bond_price", rates |-> out.rates, coupon |-> out.coupon,
               maturity |-> out.maturity,
               bond_tree |-> bond_price(out.rates, out.coupon, out.maturity)]
    /\ UNCHANGED <<ytm, portfolio, treeVars, bdtVars>>

CallPrice ==
    /\ out.op = "call"
    /\ out.fn = "call_price"
    /\ LET bond_tree == bond_price(out.rates, out.coupon, out.maturity)
       IN  out' = [op |-> "call_price", rates |-> out.rates,
                   maturity |-> out.maturity, strike |-> out.strike,
                   first_time_call |-> out.first_time_call,
                   bond_values |-> bond_tree,
                   call_tree |-> call_price(out.rates, bond_tree, out.strike,
                                            out.maturity, out.first_time_call)]
    /\ UNCHANGED <<ytm, portfolio, treeVars, bdtVars>>

NextPricing ==
    \/ BondPrice
    \/ CallPrice

SpecPricing == InitPricing /\ [][NextPricing]_vars

\* ------------------------------------------------------ rate conversions
\* Calls of the functions of rates.py; out holds the last call.  A float
\* freq is given in halves: 0.5, 2.0, 2.5.
RateCalls ==
    LET Freqs == {PyInf, PyNegInf, PyNaN, PyInt(-1), PyInt(0), PyInt(1),
                  PyInt(2), PyFloat(1), PyFloat(4), PyFloat(5)}
        Rates == {FNum(-(CScale \div 2)), FInt(0), FInt(1), FInt(2), FInt(3)}
        Terms == {FInt(t) : t \in 0..MaxTerm}
    IN  {[op |-> "call", fn |-> "discount_factor_from", spot_rate |-> r,
          term |-> t, freq |-> f] : r \in Rates, t \in Terms, f \in Freqs}
        \cup
        {[op |-> "call", fn |-> "spot_rate_from", discount_factor |-> d,
          term |-> t, freq |-> f] :
            d \in {FNum(0), FNum(CScale \div 4), FNum(CScale \div 2),
                   FInt(1), FInt(2)},
            t \in Terms, f \in Freqs}
        \cup
        {[op |-> "call", fn |-> "forward_rate_from", rate_1 |-> r1,
          term_1 |-> t1, rate_2 |-> r2, term_2 |-> t2, freq |-> f] :
            r1 \in Rates, t1 \in Terms, r2 \in Rates, t2 \in Terms,
            f \in Freqs}

InitRates ==
    /\ ytm = 0
    /\ portfolio = <<>>
    /\ out \in RateCalls
    /\ TreesIdle
    /\ BdtIdle

DiscountFactorFrom ==
    /\ out.op = "call"
    /\ out.fn = "discount_factor_from"
    /\ out' = [op |-> "discount_factor_from",
               spot_rate |-> out.spot_rate,
               term |-> out.term,
               freq |-> out.freq,
               got |-> discount_factor_from(out.spot_rate, out.term,
                                            out.freq)]
    /\ UNCHANGED <<ytm, portfolio, treeVars, bdtVars>>

SpotRateFrom ==
    /\ out.op = "call"
    /\ out.fn = "spot_rate_from"
    /\ out' = [op |-> "spot_rate_from",
               discount_factor |-> out.discount_factor,
               term |-> out.term,
               freq |-> out.freq,
               got |-> spot_rate_from(out.discount_factor, out.term,
                                      out.freq)]
    /\ UNCHANGED <<ytm, portfolio, treeVars, bdtVars>>

ForwardRateFrom ==
    /\ out.op = "call"
    /\ out.fn = "forward_rate_from"
    /\ out' = [op |-> "forward_rate_from",
               rate_1 |-> out.rate_1,
               term_1 |-> out.term_1,
               rate_2 |-> out.rate_2,
               term_2 |-> out.term_2,
               freq |-> out.freq,
               forward |-> forward_rate_from(out.rate_1, out.term_1,
                                             out.rate_2, out.term_2,
                                             out.freq)]
    /\ UNCHANGED <<ytm, portfolio, treeVars, bdtVars>>

NextRates ==
    \/ DiscountFactorFrom
    \/ SpotRateFrom
    \/ ForwardRateFrom

SpecRates == InitRates /\ [][NextRates]_vars

\* =================================================================== claims
\* One instrument at each period 1..max, and no other: the multiset of the
\* period counts is {1, ..., max}.
IsLadder(pf) ==
    /\ Len(pf) > 0
    /\ LET n == SetMax(Periods(pf))
       IN  /\ Len(pf) = n
           /\ \A m \in 1..n :
                 Cardinality({k \in 1..Len(pf) : pf[k].periods.val = m}) = 1

\* The cashflow a bond pays at period t: the coupon before maturity, coupon
\* plus face at maturity, nothing elsewhere.
CashflowAt(bond, t) ==
    IF t = bond.periods.val THEN bond.coupon + bond.face_value
    ELSE IF 1 <= t /\ t < bond.periods.val THEN bond.coupon
    ELSE 0

\* C1: for every non-empty portfolio can_bootstrap is true exactly when the
\* multiset of period counts is {1, ..., max period}, and false otherwise.
C1_CanBootstrapIffLadder ==
    (out.op = "can_bootstrap" /\ Len(portfolio) > 0)
        => (out.raised = "none" /\ (out.eligible <=> IsLadder(portfolio)))

\* C2: for every non-empty portfolio that is not one instrument per period
\* 1..max, bootstrap signals the not-bootstrappable failure before the price
\* vector, the cash-flow matrix or the inverse is computed, and returns no
\* discount factors; it reaches the solve only on a ladder.
C2_SolveOnlyOnLadder ==
    (out.op = "bootstrap" /\ Len(portfolio) > 0 /\ ~IsLadder(portfolio))
        => /\ out.raised = "AssertionError"
           /\ ~out.solved
           /\ out.prices = <<>> /\ out.cfs = <<>> /\ out.zeros = <<>>

\* C3: for every non-empty portfolio of instruments with at least one
\* period, cash_flows returns one row per instrument, in portfolio order,
\* each as long as the longest instrument's period count, entry t of row k
\* being the cashflow instrument k pays at period t.
RowsByPeriod(pf, rows) ==
    /\ Len(rows) = Len(pf)
    /\ \A k \in 1..Len(pf) :
          /\ Len(rows[k]) = SetMax(Periods(pf))
          /\ \A t \in 1..Len(rows[k]) : rows[k][t] = CashflowAt(pf[k], t)

C3_CashFlowsByPeriod ==
    (/\ out.op = "cash_flows"
     /\ Len(portfolio) > 0
     /\ \A k \in 1..Len(portfolio) : portfolio[k].periods.val >= 1)
        => (out.raised = "none" /\ RowsByPeriod(portfolio, out.rows))

\* C4: the cash-flow matrix bootstrap solves for a portfolio with one
\* instrument per period is lower-triangular, with instrument k's own
\* terminal cashflow on the diagonal; stated here for the portfolios listed
\* in increasing period order.
C4_LowerTriangular ==
    (/\ out.op = "bootstrap"
     /\ out.solved
     /\ IsLadder(portfolio)
     /\ \A k \in 1..Len(portfolio) : portfolio[k].periods.val = k)
        => \A k \in 1..Len(out.cfs) :
              /\ \A t \in 1..Len(out.cfs[k]) : t > k => out.cfs[k][t] = 0
              /\ out.cfs[k][k] = portfolio[k].coupon + portfolio[k].face_value

\* C5: for every bootstrap-eligible portfolio with maximum period n,
\* bootstrap returns n Zero instruments, the m-th with periods m, face value
\* 1.0 and the yield of the m-th discount factor, which is the yield y the
\* whole portfolio is priced at.
C5_BootstrapZeros ==
    (/\ out.op = "bootstrap"
     /\ Len(portfolio) > 0
     /\ can_bootstrap(portfolio).value)
        => /\ out.raised = "none"
           /\ Len(out.zeros) = SetMax(Periods(portfolio))
           /\ \A m \in 1..Len(out.zeros) :
                 /\ out.zeros[m].cls = "Zero"
                 /\ out.zeros[m].periods = PyInt(m)
                 /\ out.zeros[m].face_value = 1
                 /\ out.zeros[m].on_grid
                 /\ out.zeros[m].ytm = ytm

\* C6: constructing a CouponBond or a Zero fails exactly when periods is
\* neither a non-negative integer nor infinity.
C6_ConstructionChecksPeriods ==
    (out.op = "construct" /\ out.cls \in {"CouponBond", "Zero"})
        => ((out.raised = "none")
               <=> \/ (out.arg.kind = "int" /\ out.arg.val >= 0)
                   \/ out.arg.kind = "inf")

\* The pairs the claim C7 gives for an instrument of n periods.
ExpectedPairs(bond) ==
    IF bond.cls = "Zero"
    THEN << <<bond.periods.val, bond.face_value>> >>
    ELSE [t \in 1..bond.periods.val |->
             <<t, IF t = bond.periods.val THEN bond.coupon + bond.face_value
                  ELSE bond.coupon>>]

IterPairsOk(bond, first, second) ==
    /\ Len(first) >= 1
    /\ \A q \in 1..Len(first) : first[q][1] >= 1
    /\ \A q \in 1..(Len(first) - 1) : first[q][1] < first[q + 1][1]
    /\ first[Len(first)] = <<bond.periods.val, bond.coupon + bond.face_value>>
    /\ first = ExpectedPairs(bond)
    /\ second = first

\* C7: for every constructible finite-period instrument with n periods (n a
\* non-negative integer, the period counts construction is meant to admit),
\* iterating yields pairs with period indices >= 1, strictly increasing, the
\* last at period n with the redemption; for a CouponBond exactly (1, coupon),
\* ..., (n-1, coupon), (n, coupon + face); a second iteration yields the same.
C7_IterPairs ==
    (out.op = "iter" /\ portfolio[out.k].periods.val >= 0)
        => IterPairsOk(portfolio[out.k], out.first, out.second)

\* C8: what fit returns to its caller carries, for every calibrated period,
\* the residual squared error of that period's minimization alongside the
\* fitted thetas.
C8_ErrorsReturned ==
    (pc = "done" /\ NumZeros > 1)
        => ("errors" \in DOMAIN ret /\ ret.errors = errors)

\* Period j of the calibration stands as the minimizer returned it: its
\* theta, its residual, its column of the rate tree and its zero price.
Committed(j) ==
    LET m == CallModel(model, result.x, rate_tree, j, sigma)
    IN  /\ thetas[j - 1] = result.x
        /\ errors[j - 1] = result.fun
        /\ \A r \in 0..j : rate_tree[r][j] = m.rate_tree[r][j]
        /\ zero_tree[0][0][j] = m.zero_tree[0][0]

\* C9: fit never aborts over a period's non-zero residual or failed
\* convergence: the call is only ever in its loop, inside a minimization or
\* returned; whatever the residual and the convergence flag, the period
\* before the current one stands as the minimizer returned it; and the call
\* returns only after the last period, with every theta.
C9_FitNeverAborts ==
    /\ pc \in {"loop", "minimize", "done"}
    /\ i > 1 => Committed(i - 1)
    /\ pc = "done" => (ret.returned /\ i >= NumZeros /\ ret.thetas = thetas)

\* A call that has returned after calibrating every period of the longest
\* curve, the first period with a residual and the last without convergence
\* and with a residual.
C9_Witness ==
    /\ pc = "done"
    /\ NumZeros = MaxZeros
    /\ errors[0] # <<0, 0>>
    /\ ~result.success
    /\ result.fun # <<0, 0>>
    /\ ret.thetas[NumZeros - 2] = result.x

\* Column j of the tree `tree` is the Ho-Lee column for the drift theta: the
\* top node is the top node before plus theta * dt + sigma * sqrt(dt), node r
\* is node r - 1 of the column before plus theta * dt - sigma * sqrt(dt), and
\* neighbouring nodes are 2 * sigma * sqrt(dt) apart, so that the up move from
\* one node and the down move from the node above it meet.
HoLeeColumn(tree, j, theta) ==
    /\ tree[0][j] = tree[0][j - 1] + theta * time_step + sigma * Sqrt(time_step)
    /\ \A r \in 1..j :
          /\ tree[r][j] = tree[r - 1][j - 1] + theta * time_step
                              - sigma * Sqrt(time_step)
          /\ tree[r - 1][j] - tree[r][j] = 2 * sigma * Sqrt(time_step)

\* C11: after ho_lee(theta, rate_tree, period = j, sigma, dt), 1 <= j < width,
\* column j of the rate tree is the Ho-Lee column of theta: in a calibration
\* with ho_lee every committed column j is that of thetas[j - 1], and the
\* column the minimizer wrote last in its copy is that of one of its trials.
C11_HoLeeColumns ==
    (pc \in {"loop", "minimize", "done"} /\ model = "ho_lee")
        => /\ \A j \in 1..(i - 1) : HoLeeColumn(rate_tree, j, thetas[j - 1])
           /\ pc = "minimize"
                 => \E theta \in Thetas \cup {0} : HoLeeColumn(args_tree, i, theta)

\* Every column of the widest tree written, with a volatility and a drift
\* that are not zero.
C11_Witness ==
    /\ pc = "done"
    /\ model = "ho_lee"
    /\ NumZeros = MaxZeros
    /\ i = NumZeros
    /\ sigma = 1
    /\ thetas[NumZeros - 2] = 1
    /\ rate_tree[NumZeros - 1][NumZeros - 1] # rate_tree[0][NumZeros - 1]

\* C12: every rate at a node (r, j), 0 <= r <= j, of a tree built by
\* simple_bdt, in particular by fit(simple_bdt, ...) for any target zero curve
\* and any fitted thetas, is strictly positive.
C12_BdtRatesPositive ==
    (bdt.on /\ bdt.period > 1)
        => \A j \in 0..(bdt.period - 1) : \A r \in 0..j : bdt.rate_tree[r][j] > 0

\* C12 amended: when the first target price is below 1, so that the initial
\* rate r0 is strictly positive, every rate at a node (r, j), 0 <= r <= j, of
\* the tree is strictly positive, whatever the fitted thetas.
C12_BdtRatesPositiveFromR0 ==
    (bdt.on /\ bdt.rate_tree[0][0] > 0)
        => \A j \in 0..(bdt.period - 1) : \A r \in 0..j : bdt.rate_tree[r][j] > 0

\* The widest tree with every column built from a positive r0, the last one
\* with a negative drift and a volatility.
C12_Witness ==
    /\ bdt.on
    /\ bdt.rate_tree[0][0] > 0
    /\ bdt.period = MaxZeros
    /\ Cardinality(DOMAIN bdt.thetas) = MaxZeros
    /\ bdt.sigma = 1
    /\ bdt.thetas[MaxZeros - 2] = -1
    /\ bdt.rate_tree[MaxZeros - 1][MaxZeros - 1]
          < bdt.rate_tree[MaxZeros - 2][MaxZeros - 2]

\* A float that is neither an infinity nor NaN.
IsFinite(a) == a.kind \in {"num", "real"}

\* C18: for every Nelson-Siegel parameter set with kappa # 0, at each entry
\* of the maturity vector that is 0 the yield is finite (the 1/m factor
\* having been taken as 0, the yield is theta0 - theta2) and the discount
\* factor is exactly 1.
C18_ZeroMaturityFinite ==
    out.op = "NelsonSiegel.zeros" =>
        \A k \in DOMAIN out.maturities :
            IsZero(out.maturities[k]) =>
                /\ IsFinite(out.ns_yields[k])
                /\ out.ns_yields[k] = FSub(out.self.theta0, out.self.theta2)
                /\ out.ns_zeros[k] = FInt(1)

\* C18 witness: a vector of several maturities holding a 0, under a curve
\* whose slope and curvature terms do not cancel.
C18_Witness ==
    /\ out.op = "NelsonSiegel.zeros"
    /\ Len(out.maturities) > 1
    /\ \E k \in DOMAIN out.maturities : IsZero(out.maturities[k])
    /\ \E k \in DOMAIN out.maturities : ~IsZero(out.maturities[k])
    /\ ~IsZero(FAdd(out.self.theta1, out.self.theta2))
    /\ ~IsZero(out.self.theta2)

\* The fitted prices of the instruments under the parameter vector x.
FittedPrices(x, a) ==
    yieldcurves_price(a.cashflows,
        [lib |-> a.cf_maturities.lib,
         data |-> [r \in DOMAIN a.cf_maturities.data |->
                      NelsonSiegel_zeros([theta0 |-> x[1], theta1 |-> x[2],
                                          theta2 |-> x[3], kappa |-> x[4]],
                                         a.cf_maturities.data[r])]])

\* The squared pricing errors of the instruments 1..n whose market price is
\* present, added up.
RECURSIVE PresentSum(_, _, _)
PresentSum(real, fitted, n) ==
    IF n = 0 THEN FNum(0)
    ELSE IF real[n].kind = "nan" THEN PresentSum(real, fitted, n - 1)
    ELSE LET d == FSub(real[n], fitted[n])
         IN  FAdd(PresentSum(real, fitted, n - 1), FMul(d, d))

\* C15: the curve-fitting objective leaves an instrument whose market price
\* is NaN out of the sum of squared pricing errors: it equals the sum over
\* the instruments with a present price, and is never NaN.
C15_MissingPricesLeftOut ==
    out.op = "ns_error" =>
        /\ out.objective.kind # "nan"
        /\ out.objective =
              PresentSum(out.inputs.real_prices.data,
                         FittedPrices(out.x, out.inputs).data,
                         Len(out.inputs.real_prices.data))

\* The curve-fitting entry points.
FitOps == {"ns_fit", "vasicek_fit", "NelsonSiegel.from_fit",
           "Vasicek.from_fit"}

\* C13: a fit whose optimizer used up its iteration budget without meeting
\* its tolerance fails with a no-convergence error, and returns neither a
\* parameter vector nor a fitted model.
C13_NoConvergenceRaised ==
    (out.op \in FitOps /\ "fit" \in DOMAIN out /\ ~out.fit.success) =>
        /\ out.raised # "none"
        /\ "returned_result" \notin DOMAIN out
        /\ "returned_model" \notin DOMAIN out

\* C14: every minimization call of a fit is given a maximum-iteration bound.
C14_MaxIterGiven ==
    out.op \in FitOps => \E o \in out.call.options : o[1] = "maxiter"

\* C16: every curve-fitting entry point that returns hands its caller both
\* the fitted parameter vector and the objective value achieved at it.
C16_ParametersAndObjectiveReturned ==
    (out.op \in FitOps /\ out.raised = "none") =>
        /\ "returned_result" \in DOMAIN out
        /\ out.returned_result.x = out.fit.x
        /\ out.returned_result.fun = out.fit.fun

\* The three rate conversions, and what the last one raised.
RateOps == {"discount_factor_from", "spot_rate_from", "forward_rate_from"}
RateRaised ==
    IF out.op = "forward_rate_from" THEN out.forward.raised
    ELSE out.got.raised

\* freq is the continuous sentinel, or a positive Python int.
SentinelOrPositiveInt(freq) ==
    freq.kind = "inf" \/ (freq.kind = "int" /\ freq.val > 0)

\* C19: each of discount_factor_from, spot_rate_from and forward_rate_from
\* fails with the invalid-frequency ValueError exactly for a freq that is
\* neither positive infinity nor a positive integer (zero, a negative
\* integer, a number that is not an int, negative infinity, NaN); positive
\* infinity and every positive integer are accepted.
C19_InvalidFreqRejected ==
    out.op \in RateOps =>
        (RateRaised = InvalidFreq <=> ~SentinelOrPositiveInt(out.freq))

\* C19 witness: a conversion called with freq = 0 failed with the
\* invalid-frequency error.
C19_Witness ==
    /\ out.op \in RateOps
    /\ out.freq = PyInt(0)
    /\ RateRaised = InvalidFreq

\* The value of a call that is known to have returned one.
ValueOf(r) == r.value

\* C20: for term_2 > term_1 >= 0, forward_rate_from returns the forward term
\* term_2 - term_1 and a forward rate f with
\* rate_1 * term_1 + f * (term_2 - term_1) = rate_2 * term_2 under continuous
\* compounding, and discount_factor(rate_2, term_2) =
\* discount_factor(rate_1, term_1) * discount_factor(f, term_2 - term_1)
\* under discrete compounding.  (Both sides are compared where the model
\* carries the numbers exactly.)
C20_ForwardRateConsistent ==
    (/\ out.op = "forward_rate_from"
     /\ SentinelOrPositiveInt(out.freq)
     /\ out.term_1.val >= 0
     /\ out.term_2.val > out.term_1.val) =>
        /\ out.forward.raised = "none"
        /\ out.forward.value[1] = FSub(out.term_2, out.term_1)
        /\ IsFinite(out.forward.value[2])
        /\ LET f == out.forward.value[2]
               term == FSub(out.term_2, out.term_1)
               lhs == IF out.freq.kind = "inf"
                      THEN FMul(out.rate_2, out.term_2)
                      ELSE ValueOf(discount_factor_from(out.rate_2,
                                       out.term_2, out.freq))
               rhs == IF out.freq.kind = "inf"
                      THEN FAdd(FMul(out.rate_1, out.term_1), FMul(f, term))
                      ELSE FMul(ValueOf(discount_factor_from(out.rate_1,
                                            out.term_1, out.freq)),
                                ValueOf(discount_factor_from(f, term,
                                            out.freq)))
           IN  (lhs.kind = "num" /\ rhs.kind = "num") => lhs = rhs

\* C20 witness: a forward rate between two different spot rates at terms
\* 1 and 2 under annual compounding, returned as an exact number.
C20_Witness ==
    /\ out.op = "forward_rate_from"
    /\ out.freq = PyInt(1)
    /\ out.term_1 = FInt(1)
    /\ out.term_2 = FInt(2)
    /\ out.rate_1 = FInt(1)
    /\ out.rate_2 = FInt(3)
    /\ out.forward.raised = "none"
    /\ out.forward.value[2] = FInt(7)

\* C21: for every face value, coupon and non-negative integer period count,
\* the price at a yield of exactly 0 is coupon * periods + face_value: the
\* annuity factor is the period count, not a quotient by the yield.
C21_PriceAtZeroYield ==
    (/\ out.op = "construct"
     /\ out.raised = "none"
     /\ out.obj.ytm = 0
     /\ out.obj.periods.kind = "int"
     /\ out.obj.periods.val >= 0) =>
        out.obj.price =
            (out.obj.coupon * out.obj.periods.val + out.obj.face_value) * Scale

\* C21 witness: a coupon-paying bond of several periods built at yield 0.
C21_Witness ==
    /\ out.op = "construct"
    /\ out.raised = "none"
    /\ out.obj.ytm = 0
    /\ out.obj.periods.kind = "int"
    /\ out.obj.periods.val >= 2
    /\ out.obj.coupon > 0
    /\ out.obj.price = (out.obj.coupon * out.obj.periods.val
                            + out.obj.face_value) * Scale

C23_OnlyColumnWritten ==
    [][/\ \A r \in DOMAIN rate_tree : \A c \in DOMAIN rate_tree[r] :
             c # i => rate_tree'[r][c] = rate_tree[r][c]
       /\ pc' = "minimize" =>
             \A r \in DOMAIN rate_tree : \A c \in 0..(i - 1) :
                 args_tree'[r][c] = rate_tree[r][c]
       /\ i' # i =>
             /\ i' = i + 1
             /\ \A r \in DOMAIN rate_tree :
                   rate_tree'[r][i] =
                       IF r = 0
                       THEN rate_tree[0][i - 1] + thetas'[i - 1] * time_step
                                + sigma * Sqrt(time_step)
                       ELSE IF r <= i
                       THEN rate_tree[r - 1][i - 1] + thetas'[i - 1] * time_step
                                - sigma * Sqrt(time_step)
                       ELSE rate_tree[r][i]]_vars

\* C23 witness: the second period has been calibrated after trial thetas
\* were evaluated, with a non-zero drift accepted for both periods, and the
\* first column is still what the first step wrote.
C23_Witness ==
    /\ pc = "loop"
    /\ i = 3
    /\ trials = MaxTrials
    /\ thetas[0] = 1
    /\ thetas[1] = 1
    /\ rate_tree[0][1] = rate_tree[0][0] + time_step + sigma * Sqrt(time_step)
    /\ rate_tree[1][2] = rate_tree[0][1] + time_step - sigma * Sqrt(time_step)

\* C24: fit goes through the periods in order.  It starts at period 1; a
\* step either stays in the period, leaving thetas alone, or ends a
\* minimization, writes the theta of the period - and no other - and moves
\* to the next period; the period never decreases and never passes the
\* number of target prices; the call has returned only when every period
\* has been calibrated, takes no step after it has returned, and does
\* return.
C24_PeriodsInOrder ==
    /\ i = 1
    /\ [][/\ pc # "done"
          /\ i' \in {i, i + 1}
          /\ i' = i => thetas' = thetas
          /\ i' = i + 1 =>
                /\ pc = "minimize"
                /\ i < NumZeros
                /\ \A k \in DOMAIN thetas : k # i - 1 => thetas'[k] = thetas[k]
          /\ pc' = "done" => i' = NumZeros]_vars
    /\ [](pc = "done" <=> ret.returned)
    /\ [](pc = "done" => i = NumZeros)
    /\ <>(pc = "done")

\* C24 witness: a call for the longest curve has returned with every
\* period calibrated, a drift fitted for the first period and none for the
\* second.
C24_Witness ==
    /\ pc = "done"
    /\ NumZeros = MaxZeros
    /\ i = MaxZeros
    /\ ret.thetas[0] = 1
    /\ ret.thetas[1] = 0
    /\ trials > 0

\* The cells of a square tree, and the cells below its diagonal.
Cells(tree) == {<<r, c>> : r \in DOMAIN tree, c \in DOMAIN tree}
BelowDiagonalZero(tree) ==
    \A cell \in Cells(tree) : cell[1] > cell[2] => tree[cell[1]][cell[2]] = 0
IndexesInside(cells, tree) ==
    cells.writes \cup cells.reads \subseteq Cells(tree)

\* C25: while a rate tree is built with ho_lee or simple_bdt, period after
\* period or through fit, every cell (r, c) with r > c holds 0 - in fit's
\* tree, in the copy the trial thetas are evaluated on and in the tree
\* simple_bdt is called on - and the evolution step of the period at hand
\* indexes only cells inside the array.
C25_NodesOnOrAboveDiagonal ==
    /\ pc \in {"loop", "minimize", "done"} =>
          /\ BelowDiagonalZero(rate_tree)
          /\ BelowDiagonalZero(args_tree)
          /\ i < NumZeros =>
                IndexesInside(evolution_cells(model, rate_tree, i), rate_tree)
    /\ bdt.on =>
          /\ BelowDiagonalZero(bdt.rate_tree)
          /\ bdt.period < Cardinality(DOMAIN bdt.thetas) =>
                IndexesInside(evolution_cells("simple_bdt", bdt.rate_tree,
                                              bdt.period),
                              bdt.rate_tree)

\* C25 witness: simple_bdt has been called for every period of the widest
\* tree, whose diagonal carries rates, the last call having written the
\* last column from top to bottom.
C25_Witness ==
    /\ bdt.on
    /\ Cardinality(DOMAIN bdt.thetas) = MaxZeros
    /\ bdt.period = MaxZeros
    /\ \A r \in 0..(MaxZeros - 1) : bdt.rate_tree[r][r] > 0
    /\ <<MaxZeros - 1, MaxZeros - 1>>
           \in evolution_cells("simple_bdt", bdt.rate_tree, MaxZeros - 1).writes

\* value = exp(-rate * dt) * (up + down) / 2, for a rate in units of ln 2.
IsDiscountedMean(value, rate, up, down) ==
    IF rate * time_step >= 0
    THEN 2 * value * Pow(2, rate * time_step) = up + down
    ELSE 2 * value = (up + down) * Pow(2, -(rate * time_step))

\* C26: the tree backfill returns for a period is (period + 2) x (period + 2),
\* its last column is all ones, every node (r, c) with 0 <= r <= c <= period is
\* exp(-rate(r, c) * dt) times the mean of the nodes (r, c + 1) and
\* (r + 1, c + 1), and the nodes below the diagonal in the columns before the
\* last are 0.  Checked of the backfill of the period fit has just
\* calibrated, which is also the slice of the zero tree fit stored for it.
C26_BackfillRecurrence ==
    (pc = "loop" /\ i > 1) =>
        LET period == i - 1
            z == backfill(rate_tree, period)
        IN  /\ DOMAIN z = 0..(period + 1)
            /\ \A r \in DOMAIN z :
                  /\ DOMAIN z[r] = 0..(period + 1)
                  /\ z[r][period + 1] = ZScale
                  /\ \A c \in 0..period :
                        /\ r <= c => IsDiscountedMean(z[r][c], rate_tree[r][c],
                                                      z[r][c + 1], z[r + 1][c + 1])
                        /\ r > c => z[r][c] = 0
                        /\ zero_tree[r][c][period] = z[r][c]

\* C26 witness: the tree of the second period has been backfilled over
\* rates that differ between the nodes of a column, so that the two
\* successors of the root differ, and the root has a price.
C26_Witness ==
    /\ pc = "loop"
    /\ i = 3
    /\ sigma = 1
    /\ zero_tree[0][1][2] # zero_tree[1][1][2]
    /\ zero_tree[0][0][2] > 0

\* C27: the bond tree of bond_price has face value plus coupon at every
\* node of its last column, and every node (r, c) before it is the
\* discounted mean of the nodes (r, c + 1) and (r + 1, c + 1) plus the
\* cashflow coupon * dt of the period.
C27_TerminalFacePlusCoupon ==
    out.op = "bond_price" =>
        LET size == out.maturity \div time_step
            cashflow == out.coupon * time_step * PScale
        IN  \A r \in 0..size :
               /\ out.bond_tree[r][size] = (100 + out.coupon) * PScale
               /\ \A c \in 0..(size - 1) :
                     r <= c =>
                        IsDiscountedMean(out.bond_tree[r][c] - cashflow,
                                         out.rates[r][c],
                                         out.bond_tree[r][c + 1],
                                         out.bond_tree[r + 1][c + 1])

\* value >= exp(-rate * dt) * (up + down) / 2
AtLeastDiscountedMean(value, rate, up, down) ==
    IF rate * time_step >= 0
    THEN 2 * value * Pow(2, rate * time_step) >= up + down
    ELSE 2 * value >= (up + down) * Pow(2, -(rate * time_step))

\* C28: in the tree call_price returns, a node (r, c), r <= c, before the
\* last column whose time c * dt has reached first_time_call holds the
\* larger of the continuation value and bond value - strike; a node whose
\* time is before first_time_call holds the continuation value, which is
\* exp(-rate * dt) times the mean of the call values of its two successors;
\* and no node that can be exercised, the last column included, is worth
\* less than bond value - strike.
C28_CallAtLeastExercise ==
    out.op = "call_price" =>
        LET size == out.maturity \div time_step
        IN  \A c \in 0..size : \A r \in 0..c :
               LET value == out.call_tree[r][c]
                   exercise == out.bond_values[r][c] - out.strike * PScale
                   held == IsDiscountedMean(value, out.rates[r][c],
                                            out.call_tree[r][c + 1],
                                            out.call_tree[r + 1][c + 1])
               IN  /\ c * time_step >= out.first_time_call => value >= exercise
                   /\ (c < size /\ c * time_step >= out.first_time_call) =>
                         \/ held /\ value >= exercise
                         \/ /\ value = exercise
                            /\ AtLeastDiscountedMean(value, out.rates[r][c],
                                   out.call_tree[r][c + 1],
                                   out.call_tree[r + 1][c + 1])
                   /\ (c < size /\ c * time_step < out.first_time_call) => held

\* C28 witness: a call with a lockout inside the life of the bond whose
\* tree has a node exercised early, worth more than holding on, and a node
\* before the lockout worth less than bond value - strike.
C28_Witness ==
    /\ out.op = "call_price"
    /\ out.first_time_call > 0
    /\ out.first_time_call < out.maturity
    /\ \E c \in 1..(out.maturity \div time_step - 1) : \E r \in 0..c :
          /\ c * time_step >= out.first_time_call
          /\ out.call_tree[r][c] = out.bond_values[r][c] - out.strike * PScale
          /\ ~IsDiscountedMean(out.call_tree[r][c], out.rates[r][c],
                               out.call_tree[r][c + 1],
                               out.call_tree[r + 1][c + 1])
    /\ out.call_tree[0][0] < out.bond_values[0][0] - out.strike * PScale

\* C29: reset(period, interest_rate) on a constructed floater completes
\* without an error, leaves the periods reduced by exactly `period`, and
\* the coupon read afterwards is (new interest rate + spread rate) * face
\* value / freq; and a reset that fails leaves the periods and the
\* interest rate as they were.
C29_ResetCompletes ==
    out.op = "reset" =>
        /\ out.reset_raised = "none"
        /\ out.floater.periods.val
               = out.floater_before.periods.val - out.reset_period
        /\ out.coupon_read.raised = "none"
        /\ out.coupon_read.value
               = ((100 * out.new_rate + out.floater.spread_rate)
                      * out.floater.face_value) \div (100 * out.floater.freq)
        /\ out.reset_raised # "none" =>
              /\ out.floater.periods = out.floater_before.periods
              /\ out.floater.interest_rate = out.floater_before.interest_rate

\* C30: for N >= 1 target prices, fit returns thetas and fitted_zeros with N
\* entries each and an N x N rate tree; fitted_zeros[0] is exp(-r0 * dt),
\* which no step of the call changes; fitted_zeros[k], k = 1..N-1, is the
\* root of the tree the model builds for period k with thetas[k - 1], the
\* drift column k of the rate tree was written with; and the last entry of
\* thetas is 0 throughout.
C30_ReturnedShapes ==
    /\ pc \in {"loop", "minimize", "done"} =>
          /\ zero_tree[0][0][0] = Discounted(NegLog(zeros[0]), ZScale)
          /\ thetas[NumZeros - 1] = 0
    /\ pc = "done" =>
          /\ DOMAIN ret.thetas = 0..(NumZeros - 1)
          /\ ret.fitted_zeros.ndim = 1
          /\ DOMAIN ret.fitted_zeros.values = 0..(NumZeros - 1)
          /\ DOMAIN ret.rate_tree = 0..(NumZeros - 1)
          /\ \A r \in DOMAIN ret.rate_tree :
                DOMAIN ret.rate_tree[r] = 0..(NumZeros - 1)
          /\ ret.fitted_zeros.values[0] = Discounted(NegLog(zeros[0]), ZScale)
          /\ ret.thetas[NumZeros - 1] = 0
          /\ \A k \in 1..(NumZeros - 1) :
                /\ ret.fitted_zeros.values[k] =
                       CallModel(model, ret.thetas[k - 1], ret.rate_tree, k,
                                 sigma).zero_tree[0][0]
                /\ ret.rate_tree[0][k] =
                       ret.rate_tree[0][k - 1] + ret.thetas[k - 1] * time_step
                           + sigma * Sqrt(time_step)

====
